---- MODULE Spec2Model ----
(***************************************************************************)
(* A model of the anselm67/scheme interpreter core: the heap (heap.rs),    *)
(* the environment frames (env.rs), the evaluator (heap.rs, types.rs),     *)
(* the primitives (interp.rs) and the reader at datum level (parser.rs).   *)
(*                                                                         *)
(* Heap ids are 0-based as in the source; objects is a 1-based sequence,   *)
(* so the object with id i is objects[i + 1].  Environment frames are      *)
(* Rc<RefCell<Env>> cells in the source; here they live in an arena        *)
(* (frames) and a handle is an index into it, 0 standing for no parent.    *)
(***************************************************************************)
EXTENDS Integers, Sequences, FiniteSets, TLC

VARIABLES
    objects,   \* Heap.objects : Vec<HeapObject>
    symbols,   \* Heap.symbols : HashMap<String, GcId>
    frames,    \* every Env cell created so far; frames[GlobalEnv] is Interp.env
    expr,      \* the Value the client holds (last value read or allocated)
    result,    \* the Result of the last Interp::eval
    trace,     \* the define, set! and lambda forms, the closure applications
               \* and the body forms the last Interp::eval ran, each with the
               \* frames before and after it acted
    last,      \* the last operation and its argument
    interned,  \* the (name, id) pairs returned by the client's intern_symbol calls
    nreads,    \* number of Parser::read calls so far
    napi,      \* number of direct heap calls so far
    overflow_checks,  \* the build profile: TRUE when integer overflow panics
    parser,    \* the Parser the client holds: its input bytes, the number of
               \* bytes consumed before and after its last read, the number
               \* of read calls made on it and the Result of the last one
    printer    \* the display call in progress: the text written so far and
               \* the write_to calls and Pair loops still to run

vars == <<objects, symbols, frames, expr, result, trace, last, interned, nreads,
          napi, overflow_checks, parser, printer>>

----------------------------------------------------------------------------
(* Bounds *)

MaxReads == 2
MaxApi == 3
MaxDepth == 14
MaxParsers == 1
MaxOut == 16

----------------------------------------------------------------------------
(* types.rs: Value *)

NumberInt(n) == [tag |-> "Int", v |-> n]
Bool(b) == [tag |-> "Bool", v |-> IF b THEN 1 ELSE 0]
Obj(id) == [tag |-> "Obj", v |-> id]
Nil == [tag |-> "Nil", v |-> 0]

(* Number::Float; the magnitude of a Float is not modelled *)
Float == [tag |-> "Float", v |-> 0]

IsObj(val) == val.tag = "Obj"

(* Result<Value, SchemeError>: an error keeps its kind and, for            *)
(* UnboundVariable, the id of the symbol named in its message.  A panic    *)
(* (a failed RefCell borrow, a failed assert) is the kind "Panic".         *)
Ok(val) == [ok |-> TRUE, val |-> val, err |-> ""]
Err(kind) == [ok |-> FALSE, val |-> Nil, err |-> kind]
ErrAt(kind, id) == [ok |-> FALSE, val |-> Obj(id), err |-> kind]
NoResult == [ok |-> FALSE, val |-> Nil, err |-> "none"]

----------------------------------------------------------------------------
(* heap.rs: HeapObject *)

Symbol(name) == [type |-> "Symbol", name |-> name]
String(s) == [type |-> "String", s |-> s]
Pair(car, cdr) == [type |-> "Pair", car |-> car, cdr |-> cdr]
Primitive(fn) == [type |-> "Primitive", fn |-> fn]
Closure(params, body, env) ==
    [type |-> "Closure", params |-> params, body |-> body, env |-> env]

(* heap.rs: Keyword, by ordinal *)
KeywordNames == <<"if", "define", "lambda", "quote", "#t", "#f", "set!">>

KwIf == 0
KwDefine == 1
KwLambda == 2
KwQuote == 3
KwTrue == 4
KwFalse == 5
KwSetBang == 6

(* variant: `if` is missing from the table *)
IsKeyword_NoIf(id) == id \in 1..6

(* Keyword::from_id *)
IsKeyword(id) == id \in 0..6

----------------------------------------------------------------------------
(* heap.rs: Heap.  A heap value h is [objects, symbols].                   *)

Get(objs, id) == objs[id + 1]

(* variant: the lookup of an existing entry is missing *)
InternSymbolToGcid_NoLookup(h, name) ==
    LET id == Len(h.objects)
    IN [h |-> [objects |-> Append(h.objects, Symbol(name)),
               symbols |-> (name :> id) @@ h.symbols],
        id |-> id]

InternSymbolToGcid(h, name) ==
    IF name \in DOMAIN h.symbols
    THEN [h |-> h, id |-> h.symbols[name]]
    ELSE LET id == Len(h.objects)
         IN [h |-> [objects |-> Append(h.objects, Symbol(name)),
                    symbols |-> (name :> id) @@ h.symbols],
             id |-> id]

InternSymbol(h, name) ==
    LET r == InternSymbolToGcid(h, name)
    IN [h |-> r.h, val |-> Obj(r.id)]

(* variant: the id is taken after the push *)
AllocPair_IdAfterPush(h, car, cdr) ==
    LET objs == Append(h.objects, Pair(car, cdr))
    IN [h |-> [h EXCEPT !.objects = objs], val |-> Obj(Len(objs))]

AllocPair(h, car, cdr) ==
    LET id == Len(h.objects)
    IN [h |-> [h EXCEPT !.objects = Append(@, Pair(car, cdr))], val |-> Obj(id)]

(* variant: fold instead of rfold, the first item is allocated first *)
RECURSIVE AllocListFrom_Fold(_, _, _, _)
AllocListFrom_Fold(h, items, i, acc) ==
    IF i = 0
    THEN [h |-> h, val |-> acc]
    ELSE LET r == AllocPair(h, items[Len(items) - i + 1], acc)
         IN AllocListFrom_Fold(r.h, items, i - 1, r.val)

(* items.into_iter().rfold(Nil, |acc, val| alloc_pair(val, acc)) *)
RECURSIVE AllocListFrom(_, _, _, _)
AllocListFrom(h, items, i, acc) ==
    IF i = 0
    THEN [h |-> h, val |-> acc]
    ELSE LET r == AllocPair(h, items[i], acc)
         IN AllocListFrom(r.h, items, i - 1, r.val)

AllocList(h, items) == AllocListFrom(h, items, Len(items), Nil)

AllocString(h, s) ==
    LET id == Len(h.objects)
    IN [h |-> [h EXCEPT !.objects = Append(@, String(s))], val |-> Obj(id)]

AllocPrimitive(h, fn) ==
    LET id == Len(h.objects)
    IN [h |-> [h EXCEPT !.objects = Append(@, Primitive(fn))], val |-> Obj(id)]

AllocClosure(objs, closure) ==
    LET id == Len(objs)
    IN [objects |-> Append(objs, closure), val |-> Obj(id)]

(* Heap::new: intern the keywords in order; each assert! must hold.        *)
RECURSIVE InternSpecialKeywords(_, _)
InternSpecialKeywords(h, k) ==
    IF k > Len(KeywordNames)
    THEN [h |-> h, ok |-> TRUE]
    ELSE LET r == InternSymbolToGcid(h, KeywordNames[k])
         IN IF r.id # k - 1
            THEN [h |-> r.h, ok |-> FALSE]
            ELSE InternSpecialKeywords(r.h, k + 1)

(* variant: the keywords are not pre-interned *)
HeapNew_NoKeywords == [h |-> [objects |-> <<>>, symbols |-> <<>>], ok |-> TRUE]

HeapNew == InternSpecialKeywords([objects |-> <<>>, symbols |-> <<>>], 1)

----------------------------------------------------------------------------
(* env.rs: Env.  A frame is [bindings, parent].                            *)

GlobalEnv == 1

EnvNew == [bindings |-> <<>>, parent |-> 0]

(* Env::extend: a new cell; its handle is its position in the arena.       *)
EnvExtend(frs, parent) ==
    [frames |-> Append(frs, [bindings |-> <<>>, parent |-> parent]),
     env |-> Len(frs) + 1]

(* variant: the binding goes to the parent frame when there is one *)
EnvDefine_InParent(frs, env, key, value) ==
    LET target == IF frs[env].parent # 0 THEN frs[env].parent ELSE env
    IN [frs EXCEPT ![target].bindings = (key :> value) @@ @]

EnvDefine(frs, env, key, value) ==
    [frs EXCEPT ![env].bindings = (key :> value) @@ @]

(* variant: the chain is not walked, the current frame is written *)
EnvSetBang_NoWalk(frs, env, key, value) ==
    [frames |-> [frs EXCEPT ![env].bindings = (key :> value) @@ @], ok |-> TRUE]

(* variant: a key no frame binds is inserted in the frame the walk ends in *)
RECURSIVE EnvSetBang_InsertAtRoot(_, _, _, _)
EnvSetBang_InsertAtRoot(frs, env, key, value) ==
    IF key \in DOMAIN frs[env].bindings \/ frs[env].parent = 0
    THEN [frames |-> [frs EXCEPT ![env].bindings = (key :> value) @@ @],
          ok |-> TRUE]
    ELSE EnvSetBang_InsertAtRoot(frs, frs[env].parent, key, value)

RECURSIVE EnvSetBang(_, _, _, _)
EnvSetBang(frs, env, key, value) ==
    IF key \in DOMAIN frs[env].bindings
    THEN [frames |-> [frs EXCEPT ![env].bindings = (key :> value) @@ @],
          ok |-> TRUE]
    ELSE IF frs[env].parent # 0
         THEN EnvSetBang(frs, frs[env].parent, key, value)
         ELSE [frames |-> frs, ok |-> FALSE]

RECURSIVE EnvLookup(_, _, _)
EnvLookup(frs, env, key) ==
    IF key \in DOMAIN frs[env].bindings
    THEN [found |-> TRUE, val |-> frs[env].bindings[key]]
    ELSE IF frs[env].parent # 0
         THEN EnvLookup(frs, frs[env].parent, key)
         ELSE [found |-> FALSE, val |-> Nil]

----------------------------------------------------------------------------
(* interp.rs: Interp::new, Interp::init                                    *)

PrimTable == <<
    <<"number?", "primitive_number_p">>,
    <<"integer?", "primitive_integer_p">>,
    <<"float?", "primitive_float_p">>,
    <<"+", "primitive_add">>,
    <<"-", "primitive_sub">>,
    <<"*", "primitive_mul">>,
    <<"/", "primitive_div">>,
    <<"%", "primitive_rem">>,
    <<"=", "primitive_number_eq">>,
    <<"<", "primitive_number_lt">>,
    <<">", "primitive_number_gt">>,
    <<"<=", "primitive_number_lte">>,
    <<">=", "primitive_number_gte">>,
    <<"max", "primitive_number_max">>,
    <<"min", "primitive_number_min">>,
    <<"list", "primitive_list">>,
    <<"list?", "primitive_list_p">>,
    <<"null?", "primitive_null_p">>,
    <<"car", "primitive_list_car">>,
    <<"cdr", "primitive_list_cdr">>,
    <<"quit", "primitive_quit">>,
    <<"exit", "primitive_quit">> >>

(* Interp::define on a state s = [h, frames] *)
InterpDefine(s, name, value) ==
    LET r == InternSymbol(s.h, name)
    IN [h |-> r.h, frames |-> EnvDefine(s.frames, GlobalEnv, r.val.v, value)]

InterpDefinePrimitive(s, name, fn) ==
    LET r == AllocPrimitive(s.h, fn)
    IN InterpDefine([h |-> r.h, frames |-> s.frames], name, r.val)

RECURSIVE DefinePrimitives(_, _)
DefinePrimitives(s, k) ==
    IF k > Len(PrimTable)
    THEN s
    ELSE DefinePrimitives(InterpDefinePrimitive(s, PrimTable[k][1], PrimTable[k][2]), k + 1)

InterpInit(s) ==
    LET s1 == InterpDefine(s, "#t", Bool(TRUE))
        s2 == InterpDefine(s1, "#f", Bool(FALSE))
    IN DefinePrimitives(s2, 1)

InterpNew ==
    LET hn == HeapNew
    IN IF hn.ok
       THEN [s |-> InterpInit([h |-> hn.h, frames |-> <<EnvNew>>]), ok |-> TRUE]
       ELSE [s |-> [h |-> hn.h, frames |-> <<EnvNew>>], ok |-> FALSE]

----------------------------------------------------------------------------
(* types.rs: Number::Int arithmetic.  The source's i64 is scaled down to   *)
(* IntBits bits.  An overflowing +, - or * panics when the build has       *)
(* overflow checks (debug profile) and wraps otherwise (release profile).  *)

IntBits == 8
IntMin == -(2 ^ (IntBits - 1))
IntMax == 2 ^ (IntBits - 1) - 1
InRange(n) == n >= IntMin /\ n <= IntMax
Wrap(n) == ((n - IntMin) % (2 ^ IntBits)) + IntMin

IsNumber(val) == val.tag \in {"Int", "Float"}

(* the exact result n of an Int operation, as the build delivers it *)
IntResult(oc, n) ==
    IF InRange(n) THEN Ok(NumberInt(n))
    ELSE IF oc THEN Err("Panic")
    ELSE Ok(NumberInt(Wrap(n)))

(* an operand that is a Float makes the operation an f64 one *)
AnyFloat(a, b) == a.tag = "Float" \/ b.tag = "Float"

NumberAdd(oc, a, b) == IF AnyFloat(a, b) THEN Ok(Float) ELSE IntResult(oc, a.v + b.v)
NumberSub(oc, a, b) == IF AnyFloat(a, b) THEN Ok(Float) ELSE IntResult(oc, a.v - b.v)
NumberMul(oc, a, b) == IF AnyFloat(a, b) THEN Ok(Float) ELSE IntResult(oc, a.v * b.v)
NumberNeg(oc, a) == IF a.tag = "Float" THEN Ok(Float) ELSE IntResult(oc, 0 - a.v)

(* Div for Number: every division is an f64 division *)
NumberDiv(a, b) == Ok(Float)

----------------------------------------------------------------------------
(* interp.rs: helpers on Values *)

(* Interp::is_pair *)
IsPair(objs, val) == IsObj(val) /\ Get(objs, val.v).type = "Pair"

(* Interp::to_symbol *)
IsSymbol(objs, val) == IsObj(val) /\ Get(objs, val.v).type = "Symbol"

(* variant: the walk stops one Pair early and leaves out the last car *)
RECURSIVE FoldList_DropLast(_, _)
FoldList_DropLast(objs, list) ==
    IF IsPair(objs, list) /\ IsPair(objs, Get(objs, list.v).cdr)
    THEN <<Get(objs, list.v).car>> \o FoldList_DropLast(objs, Get(objs, list.v).cdr)
    ELSE <<>>

(* Heap::fold_list with a closure that pushes each car: the cars of the    *)
(* chain that starts at list, up to the first cdr that is not a Pair.      *)
RECURSIVE FoldList(_, _)
FoldList(objs, list) ==
    IF IsPair(objs, list)
    THEN <<Get(objs, list.v).car>> \o FoldList(objs, Get(objs, list.v).cdr)
    ELSE <<>>

(* extract_param_ids: fold_list with to_symbol on each car *)
ExtractParamIds(objs, params) ==
    LET items == FoldList(objs, params)
    IN IF \A i \in 1..Len(items) : IsSymbol(objs, items[i])
       THEN [ok |-> TRUE, ids |-> [i \in 1..Len(items) |-> items[i].v]]
       ELSE [ok |-> FALSE, ids |-> <<>>]

----------------------------------------------------------------------------
(* interp.rs: the primitives.  An evaluation state st is                   *)
(* [objects, frames, trace, oc], oc being the overflow-checks flag of the  *)
(* build; rb says that a caller holds a read borrow of the heap RefCell,   *)
(* which makes heap.borrow_mut() panic.                                    *)

(* all_of_type!(args, Value::Number, ..) *)
AllNumbers(args) == \A i \in 1..Len(args) : IsNumber(args[i])

(* nums.into_iter().fold(init, |acc, n| acc op n); a panic ends the fold.  *)
(* The order of a Float and another Number depends on its magnitude,       *)
(* which is not modelled.                                                  *)
RECURSIVE FoldNumbers(_, _, _, _, _)
FoldNumbers(oc, op, acc, nums, i) ==
    IF i > Len(nums) THEN Ok(acc)
    ELSE LET r == CASE op = "add" -> NumberAdd(oc, acc, nums[i])
                    [] op = "sub" -> NumberSub(oc, acc, nums[i])
                    [] op = "mul" -> NumberMul(oc, acc, nums[i])
                    [] op = "div" -> NumberDiv(acc, nums[i])
                    [] op = "max" ->
                       IF AnyFloat(acc, nums[i]) THEN Err("Unmodelled")
                       ELSE Ok(IF acc.v > nums[i].v THEN acc ELSE nums[i])
                    [] op = "min" ->
                       IF AnyFloat(acc, nums[i]) THEN Err("Unmodelled")
                       ELSE Ok(IF acc.v < nums[i].v THEN acc ELSE nums[i])
         IN IF r.ok THEN FoldNumbers(oc, op, r.val, nums, i + 1) ELSE r

primitive_add(oc, args) ==
    IF ~AllNumbers(args) THEN Err("TypeError")
    ELSE FoldNumbers(oc, "add", NumberInt(0), args, 1)

primitive_sub(oc, args) ==
    IF ~AllNumbers(args) THEN Err("TypeError")
    ELSE IF Len(args) = 0 THEN Err("ArgCountError")
    ELSE IF Len(args) = 1 THEN NumberNeg(oc, args[1])
    ELSE FoldNumbers(oc, "sub", args[1], args, 2)

primitive_mul(oc, args) ==
    IF ~AllNumbers(args) THEN Err("TypeError")
    ELSE FoldNumbers(oc, "mul", NumberInt(1), args, 1)

(* primitive_div: Number::Float(1.0) / init for a single argument *)
primitive_div(args) ==
    IF ~AllNumbers(args) THEN Err("TypeError")
    ELSE IF Len(args) = 0 THEN Err("ArgCountError")
    ELSE IF Len(args) = 1 THEN NumberDiv(Float, args[1])
    ELSE FoldNumbers(FALSE, "div", args[1], args, 2)

primitive_number_max(args) ==
    IF ~AllNumbers(args) THEN Err("TypeError")
    ELSE IF Len(args) = 0 THEN Err("ArgCountError")
    ELSE FoldNumbers(FALSE, "max", args[1], args, 1)

primitive_number_min(args) ==
    IF ~AllNumbers(args) THEN Err("TypeError")
    ELSE IF Len(args) = 0 THEN Err("ArgCountError")
    ELSE FoldNumbers(FALSE, "min", args[1], args, 1)

(* i64 %: truncated remainder; a zero divisor and MIN % -1 panic in every build *)
Abs(n) == IF n < 0 THEN 0 - n ELSE n

IntRem(a, b) ==
    IF b = 0 \/ (a = IntMin /\ b = -1) THEN Err("Panic")
    ELSE Ok(NumberInt(IF a < 0 THEN 0 - (Abs(a) % Abs(b)) ELSE a % Abs(b)))

(* extract_args!(args, 2, a: Number, b: Number) followed by body(a, b) *)
primitive_rem(args) ==
    IF Len(args) # 2 THEN Err("ArgCountError")
    ELSE IF ~IsNumber(args[1]) \/ ~IsNumber(args[2]) THEN Err("TypeError")
    ELSE IF AnyFloat(args[1], args[2]) THEN Ok(Float)
    ELSE IntRem(args[1].v, args[2].v)

primitive_number_cmp(fn, args) ==
    IF Len(args) # 2 THEN Err("ArgCountError")
    ELSE IF ~IsNumber(args[1]) \/ ~IsNumber(args[2]) THEN Err("TypeError")
    ELSE IF AnyFloat(args[1], args[2]) THEN Err("Unmodelled")
    ELSE LET a == args[1].v
             b == args[2].v
         IN Ok(Bool(CASE fn = "primitive_number_eq" -> a = b
                      [] fn = "primitive_number_lt" -> a < b
                      [] fn = "primitive_number_lte" -> a <= b
                      [] fn = "primitive_number_gt" -> a > b
                      [] fn = "primitive_number_gte" -> a >= b))

primitive_number_p(args) ==
    IF Len(args) = 0 THEN Err("ArgCountError") ELSE Ok(Bool(IsNumber(args[1])))

primitive_integer_p(args) ==
    IF Len(args) = 0 THEN Err("ArgCountError") ELSE Ok(Bool(args[1].tag = "Int"))

primitive_float_p(args) ==
    IF Len(args) = 0 THEN Err("ArgCountError") ELSE Ok(Bool(args[1].tag = "Float"))

(* Interp::is_list *)
IsList(objs, val) == IsPair(objs, val) \/ val = Nil

primitive_list_p(objs, args) ==
    IF Len(args) = 0 THEN Err("ArgCountError") ELSE Ok(Bool(IsList(objs, args[1])))

primitive_null_p(args) ==
    IF Len(args) # 1 THEN Err("ArgCountError") ELSE Ok(Bool(args[1] = Nil))

(* primitive_list: alloc_list(args[1..]) under heap.borrow_mut() *)
primitive_list(st, args, rb) ==
    IF Len(args) = 0 THEN [st |-> st, res |-> Ok(Nil)]
    ELSE IF rb THEN [st |-> st, res |-> Err("Panic")]
    ELSE LET r == AllocList([objects |-> st.objects, symbols |-> <<>>], Tail(args))
         IN [st |-> [st EXCEPT !.objects = r.h.objects], res |-> Ok(r.val)]

(* primitive_list_car: extract_args!(args, 1, id: Object); only a          *)
(* HeapObject::List has a car, and no operation of the source creates one. *)
primitive_list_car(st, args) ==
    IF Len(args) # 1 THEN Err("ArgCountError")
    ELSE IF ~IsObj(args[1]) THEN Err("TypeError")
    ELSE LET list == Get(st.objects, args[1].v)
         IN IF list.type = "List"
            THEN IF Len(list.items) = 0 THEN Err("EvalError") ELSE Ok(list.items[1])
            ELSE Err("TypeError")

primitive_list_cdr(st, args, rb) ==
    IF Len(args) # 1 THEN [st |-> st, res |-> Err("ArgCountError")]
    ELSE IF ~IsObj(args[1]) THEN [st |-> st, res |-> Err("TypeError")]
    ELSE LET list == Get(st.objects, args[1].v)
         IN IF list.type = "List"
            THEN IF Len(list.items) = 0 THEN [st |-> st, res |-> Err("EvalError")]
                 ELSE IF rb THEN [st |-> st, res |-> Err("Panic")]
                 ELSE LET r == AllocList([objects |-> st.objects, symbols |-> <<>>],
                                         Tail(list.items))
                      IN [st |-> [st EXCEPT !.objects = r.h.objects], res |-> Ok(r.val)]
            ELSE [st |-> st, res |-> Err("TypeError")]

(* the i32 of the source, scaled down as the i64 is *)
I32Bits == IntBits \div 2
I32Min == -(2 ^ (I32Bits - 1))
I32Max == 2 ^ (I32Bits - 1) - 1

(* process::exit(code): the process ends with status code, no value is     *)
(* returned to any caller                                                  *)
Exit(code) == [ok |-> FALSE, val |-> NumberInt(code), err |-> "Exit"]

(* variant: the conversion truncates to the low bits, as the cast i as i32 *)
TryFromI32_Truncates(n) ==
    [ok |-> TRUE, code |-> ((n.v - I32Min) % (2 ^ I32Bits)) + I32Min]

(* impl TryFrom<Number> for i32, for a Number::Int *)
TryFromI32(n) ==
    IF n.v >= I32Min /\ n.v <= I32Max THEN [ok |-> TRUE, code |-> n.v]
    ELSE [ok |-> FALSE, code |-> 0]

(* primitive_quit: extract_args!(args, 1, exit_code: Number).  The         *)
(* conversion of a Float depends on its magnitude, which is not modelled.  *)
primitive_quit(args) ==
    IF Len(args) # 1 THEN Err("ArgCountError")
    ELSE IF ~IsNumber(args[1]) THEN Err("TypeError")
    ELSE IF args[1].tag = "Float" THEN Err("Unmodelled")
    ELSE LET c == TryFromI32(args[1])
         IN IF c.ok THEN Exit(c.code) ELSE Err("OverflowError")

(* the call pr(interp, &args) of a Primitive object *)
PrimitiveApply(st, fn, args, rb) ==
    CASE fn = "primitive_list" -> primitive_list(st, args, rb)
      [] fn = "primitive_list_cdr" -> primitive_list_cdr(st, args, rb)
      [] OTHER ->
         [st |-> st,
          res |-> CASE fn = "primitive_add" -> primitive_add(st.oc, args)
                    [] fn = "primitive_sub" -> primitive_sub(st.oc, args)
                    [] fn = "primitive_mul" -> primitive_mul(st.oc, args)
                    [] fn = "primitive_div" -> primitive_div(args)
                    [] fn = "primitive_rem" -> primitive_rem(args)
                    [] fn = "primitive_number_max" -> primitive_number_max(args)
                    [] fn = "primitive_number_min" -> primitive_number_min(args)
                    [] fn \in {"primitive_number_eq", "primitive_number_lt",
                               "primitive_number_lte", "primitive_number_gt",
                               "primitive_number_gte"} -> primitive_number_cmp(fn, args)
                    [] fn = "primitive_number_p" -> primitive_number_p(args)
                    [] fn = "primitive_integer_p" -> primitive_integer_p(args)
                    [] fn = "primitive_float_p" -> primitive_float_p(args)
                    [] fn = "primitive_list_p" -> primitive_list_p(st.objects, args)
                    [] fn = "primitive_null_p" -> primitive_null_p(args)
                    [] fn = "primitive_list_car" -> primitive_list_car(st, args)
                    [] fn = "primitive_quit" -> primitive_quit(args)
                    [] OTHER -> Err("Unmodelled")]

----------------------------------------------------------------------------
(* heap.rs / types.rs: the evaluator.  Every operator returns [st, res].   *)
(* depth bounds the nesting of GcId::eval calls (the host stack).          *)

R(st, res) == [st |-> st, res |-> res]

(* a panic unwinds through every caller instead of being matched by `?`,   *)
(* and process::exit returns to no caller                                  *)
Aborted(res) == ~res.ok /\ res.err \in {"Panic", "StackOverflow", "Exit"}

(* the environment a new Closure captures: Rc::clone(&interp.env) *)
ClosureEnv(env) == GlobalEnv

(* for (param_id, arg_value) in params.zip(args) { new_env.define(..) } *)
RECURSIVE BindParams(_, _, _, _, _)
BindParams(frs, env, params, args, i) ==
    IF i > Len(params) \/ i > Len(args) THEN frs
    ELSE BindParams(EnvDefine(frs, env, params[i], args[i]), env, params, args, i + 1)

RECURSIVE ValueEval(_, _, _, _, _)
RECURSIVE GcIdEval(_, _, _, _, _)
RECURSIVE KeywordEval(_, _, _, _, _, _)
RECURSIVE ValueApply(_, _, _, _, _)
RECURSIVE EvalArgs(_, _, _, _, _)
RECURSIVE EvalBody(_, _, _, _, _, _, _)

(* impl SchemeObject for Value: eval *)
ValueEval(st, val, env, rb, depth) ==
    IF IsObj(val) THEN GcIdEval(st, val.v, env, rb, depth) ELSE R(st, Ok(val))

(* the argument walk of an application: fold_list under heap.borrow(),     *)
(* evaluating each car in turn; the first Err ends the walk.               *)
EvalArgs(st, p, env, acc, depth) ==
    IF IsPair(st.objects, p)
    THEN LET cell == Get(st.objects, p.v)
             r == ValueEval(st, cell.car, env, TRUE, depth)
         IN IF r.res.ok
            THEN EvalArgs(r.st, cell.cdr, env, Append(acc, r.res.val), depth)
            ELSE [st |-> r.st, res |-> r.res, args |-> <<>>]
    ELSE [st |-> st, res |-> Ok(Nil), args |-> acc]

(* impl SchemeObject for GcId: eval *)
GcIdEval(st, id, env, rb, depth) ==
    IF depth = 0 THEN R(st, Err("StackOverflow"))
    ELSE
    LET obj == Get(st.objects, id)
    IN CASE obj.type = "Pair" ->
            IF IsObj(obj.car) /\ IsKeyword(obj.car.v)
            THEN KeywordEval(st, env, obj.car.v, FoldList(st.objects, obj.cdr),
                             rb, depth - 1)
            ELSE LET a == EvalArgs(st, obj.cdr, env, <<>>, depth - 1)
                 IN IF Aborted(a.res) THEN R(a.st, a.res)
                    ELSE LET f == ValueEval(a.st, obj.car, env, rb, depth - 1)
                         IN IF ~f.res.ok THEN f
                            ELSE IF ~a.res.ok THEN R(f.st, a.res)
                            ELSE ValueApply(f.st, f.res.val, a.args, rb, depth - 1)
         [] obj.type = "Symbol" ->
            LET l == EnvLookup(st.frames, env, id)
            IN IF l.found THEN R(st, Ok(l.val))
               ELSE R(st, ErrAt("UnboundVariable", id))
         [] OTHER -> R(st, Ok(Obj(id)))

(* Keyword::eval *)
KeywordEval(st, env, keyword, args, rb, depth) ==
    CASE keyword = KwIf ->
         IF Len(args) # 3 THEN R(st, Err("EvalError"))
         ELSE LET c == ValueEval(st, args[1], env, rb, depth)
              IN IF ~c.res.ok THEN c
                 ELSE IF c.res.val = Bool(TRUE)
                      THEN ValueEval(c.st, args[2], env, rb, depth)
                 ELSE IF c.res.val = Bool(FALSE)
                      THEN ValueEval(c.st, args[3], env, rb, depth)
                 ELSE R(c.st, Err("TypeError"))
      [] keyword = KwDefine ->
         IF Len(args) # 2 THEN R(st, Err("EvalError"))
         ELSE LET v == ValueEval(st, args[2], env, rb, depth)
              IN IF ~v.res.ok THEN v
                 ELSE IF IsObj(args[1])
                 THEN LET frs == EnvDefine(v.st.frames, env, args[1].v, v.res.val)
                          ev == [op |-> "define", env |-> env, key |-> args[1].v,
                                 val |-> v.res.val, res |-> Ok(v.res.val),
                                 before |-> v.st.frames, after |-> frs]
                      IN R([v.st EXCEPT !.frames = frs, !.trace = Append(@, ev)],
                           Ok(v.res.val))
                 ELSE R(v.st, Err("TypeError"))
      [] keyword = KwLambda ->
         IF Len(args) = 0 THEN R(st, Err("EvalError"))
         ELSE LET p == ExtractParamIds(st.objects, args[1])
              IN IF ~p.ok THEN R(st, Err("TypeError"))
                 ELSE IF rb THEN R(st, Err("Panic"))
                 ELSE LET c == AllocClosure(st.objects,
                                   Closure(p.ids, Tail(args), ClosureEnv(env)))
                          ev == [op |-> "lambda", env |-> env, key |-> c.val.v,
                                 val |-> c.val, res |-> Ok(c.val),
                                 before |-> st.frames, after |-> st.frames]
                      IN R([st EXCEPT !.objects = c.objects, !.trace = Append(@, ev)],
                           Ok(c.val))
      [] keyword = KwQuote ->
         IF Len(args) # 1 THEN R(st, Err("EvalError"))
         ELSE R(st, Ok(args[1]))
      [] keyword = KwSetBang ->
         IF Len(args) # 2 THEN R(st, Err("EvalError"))
         ELSE LET v == ValueEval(st, args[2], env, rb, depth)
              IN IF ~v.res.ok THEN v
                 ELSE IF IsObj(args[1])
                 THEN LET s == EnvSetBang(v.st.frames, env, args[1].v, v.res.val)
                          res == IF s.ok THEN Ok(v.res.val)
                                 ELSE ErrAt("UnboundVariable", args[1].v)
                          ev == [op |-> "set!", env |-> env, key |-> args[1].v,
                                 val |-> v.res.val, res |-> res,
                                 before |-> v.st.frames, after |-> s.frames]
                      IN R([v.st EXCEPT !.frames = s.frames, !.trace = Append(@, ev)],
                           res)
                 ELSE R(v.st, Err("TypeError"))
      [] OTHER -> R(st, Err("EvalError"))

(* variant: a failing body form does not end the application *)
EvalBody_IgnoreError(st, body, i, env, acc, rb, depth) ==
    IF i > Len(body) THEN R(st, Ok(acc))
    ELSE LET r == ValueEval(st, body[i], env, rb, depth)
             ev == [op |-> "body", env |-> env, key |-> i, val |-> body[i],
                    res |-> r.res, before |-> st.frames, after |-> r.st.frames]
             s == [r.st EXCEPT !.trace = Append(@, ev)]
         IN IF Aborted(r.res) THEN R(s, r.res)
            ELSE EvalBody(s, body, i + 1, env, r.res.val, rb, depth)

(* for expr in &closure.body { result = expr.eval(interp, &new_env)?; }    *)
(* Each form evaluated is recorded in the trace as a "body" event.         *)
EvalBody(st, body, i, env, acc, rb, depth) ==
    IF i > Len(body) THEN R(st, Ok(acc))
    ELSE LET r == ValueEval(st, body[i], env, rb, depth)
             ev == [op |-> "body", env |-> env, key |-> i, val |-> body[i],
                    res |-> r.res, before |-> st.frames, after |-> r.st.frames]
             s == [r.st EXCEPT !.trace = Append(@, ev)]
         IN IF ~r.res.ok THEN R(s, r.res)
            ELSE EvalBody(s, body, i + 1, env, r.res.val, rb, depth)

(* variant: surplus arguments are accepted *)
ArityOk_AtMost(params, args) == Len(params) <= Len(args)

(* closure.params.len() != args.len() *)
ArityOk(params, args) == Len(params) = Len(args)

(* impl Apply for Value: apply.  The application of a closure is recorded  *)
(* in the trace as an "apply" event (closure id, arguments, the frames     *)
(* before the call and after the parameters are bound) and, when the body  *)
(* has run, a "return" event.                                              *)
ValueApply(st, f, args, rb, depth) ==
    IF ~IsObj(f) THEN R(st, Err("TypeError"))
    ELSE
    LET obj == Get(st.objects, f.v)
    IN CASE obj.type = "Closure" ->
            IF ~ArityOk(obj.params, args)
            THEN LET ev == [op |-> "apply", env |-> 0, key |-> f.v, val |-> args,
                            res |-> Err("EvalError"), before |-> st.frames,
                            after |-> st.frames]
                 IN R([st EXCEPT !.trace = Append(@, ev)], Err("EvalError"))
            ELSE LET e == EnvExtend(st.frames, obj.env)
                     frs == BindParams(e.frames, e.env, obj.params, args, 1)
                     ev == [op |-> "apply", env |-> e.env, key |-> f.v, val |-> args,
                            res |-> NoResult, before |-> st.frames, after |-> frs]
                     b == EvalBody([st EXCEPT !.frames = frs, !.trace = Append(@, ev)],
                                   obj.body, 1, e.env, Nil, rb, depth)
                     ret == [op |-> "return", env |-> e.env, key |-> f.v, val |-> args,
                             res |-> b.res, before |-> frs, after |-> b.st.frames]
                 IN R([b.st EXCEPT !.trace = Append(@, ret)], b.res)
         [] obj.type = "Primitive" -> PrimitiveApply(st, obj.fn, args, rb)
         [] OTHER -> R(st, Err("TypeError"))

(* Interp::eval: obj.eval(self, &self.env) *)
InterpEval(objs, frs, oc, val) ==
    ValueEval([objects |-> objs, frames |-> frs, trace |-> <<>>, oc |-> oc],
              val, GlobalEnv, FALSE, MaxDepth)

----------------------------------------------------------------------------
(* parser.rs: Parser::read, on tokenised input.  A datum is the token tree *)
(* of one top-level expression: <<"int", n>>, <<"bool", b>>,               *)
(* <<"sym", name>>, <<"str", s>>, <<"list", items>> or <<"quote", d>>.     *)

DInt(n) == <<"int", n>>
DBool(b) == <<"bool", b>>
DSym(name) == <<"sym", name>>
DStr(s) == <<"str", s>>
DList(items) == <<"list", items>>
DQuote(d) == <<"quote", d>>

RECURSIVE ReadDatum(_, _)
RECURSIVE ParseList(_, _, _, _)

(* Parser::parse_list: read each item, then alloc_list(items) *)
ParseList(h, ds, i, items) ==
    IF i > Len(ds) THEN AllocList(h, items)
    ELSE LET r == ReadDatum(h, ds[i])
         IN ParseList(r.h, ds, i + 1, Append(items, r.val))

ReadDatum(h, d) ==
    CASE d[1] = "list" -> ParseList(h, d[2], 1, <<>>)
      [] d[1] = "int" -> [h |-> h, val |-> NumberInt(d[2])]
      [] d[1] = "sym" -> InternSymbol(h, d[2])
      [] d[1] = "bool" -> [h |-> h, val |-> Bool(d[2])]
      [] d[1] = "str" -> AllocString(h, d[2])
      [] d[1] = "quote" ->
         LET quoted == ReadDatum(h, d[2])
         IN AllocList(quoted.h, <<Obj(KwQuote), quoted.val>>)

----------------------------------------------------------------------------
(* parser.rs: Parser::read on bytes.  The input is a sequence of bytes,    *)
(* each a one-character string; pos is the number of bytes the Peekable    *)
(* reader has consumed.  A parse returns [h, pos, res]: the heap and the   *)
(* position it leaves and the Result.  The magnitude of a Float is not     *)
(* modelled.  The i64 of the source is IntBits wide here.                  *)

Char(code) == [tag |-> "Char", v |-> code]

EOF == ""

DigitSeq == <<"0", "1", "2", "3", "4", "5", "6", "7", "8", "9">>
UpperSeq == <<"A", "B", "C", "D", "E", "F", "G", "H", "I", "J", "K", "L", "M",
              "N", "O", "P", "Q", "R", "S", "T", "U", "V", "W", "X", "Y", "Z">>
LowerSeq == <<"a", "b", "c", "d", "e", "f", "g", "h", "i", "j", "k", "l", "m",
              "n", "o", "p", "q", "r", "s", "t", "u", "v", "w", "x", "y", "z">>

Range(seq) == {seq[i] : i \in 1..Len(seq)}
IndexOf(seq, ch) == CHOOSE i \in 1..Len(seq) : seq[i] = ch

(* u8::is_ascii_digit, is_ascii_alphabetic, is_ascii_alphanumeric *)
IsAsciiDigit(ch) == ch \in Range(DigitSeq)
IsAsciiAlphabetic(ch) == ch \in Range(UpperSeq) \cup Range(LowerSeq)
IsAsciiAlphanumeric(ch) == IsAsciiDigit(ch) \/ IsAsciiAlphabetic(ch)

(* u8::to_ascii_lowercase *)
ToAsciiLowercase(ch) ==
    IF ch \in Range(UpperSeq) THEN LowerSeq[IndexOf(UpperSeq, ch)] ELSE ch

(* the byte value of an ASCII letter *)
AsciiCode(ch) ==
    IF ch \in Range(UpperSeq) THEN 64 + IndexOf(UpperSeq, ch)
    ELSE 96 + IndexOf(LowerSeq, ch)

(* char::to_digit(36) *)
DigitValue(ch) ==
    IF ch \in Range(DigitSeq) THEN IndexOf(DigitSeq, ch) - 1
    ELSE 9 + IndexOf(LowerSeq, ToAsciiLowercase(ch))

(* char::is_digit(radix) *)
IsDigit(ch, radix) == IsAsciiAlphanumeric(ch) /\ DigitValue(ch) < radix

(* the String a token's bytes make *)
RECURSIVE Join(_)
Join(token) == IF Len(token) = 0 THEN "" ELSE Head(token) \o Join(Tail(token))

PR(h, pos, res) == [h |-> h, pos |-> pos, res |-> res]

(* Parser::peek; EOF stands for None *)
Peek(input, pos) == IF pos < Len(input) THEN input[pos + 1] ELSE EOF

(* Parser::next, as the position it leaves *)
NextPos(input, pos) == IF pos < Len(input) THEN pos + 1 ELSE pos

(* variant: the end of the input is taken for the expected byte *)
CheckFor_AcceptsEof(input, pos, expected) ==
    IF Peek(input, pos) = expected \/ Peek(input, pos) = EOF
    THEN [pos |-> NextPos(input, pos), ok |-> TRUE]
    ELSE [pos |-> pos, ok |-> FALSE]

(* Parser::check_for *)
CheckFor(input, pos, expected) ==
    IF Peek(input, pos) = expected
    THEN [pos |-> pos + 1, ok |-> TRUE]
    ELSE [pos |-> pos, ok |-> FALSE]

(* Parser::is_whitespace: u8::is_ascii_whitespace *)
IsWhitespace(ch) == ch \in {" ", "\t", "\n", "\f", "\r"}

(* Parser::is_symbol *)
IsSymbolLead(ch) ==
    IsAsciiAlphabetic(ch) \/ ch \in {"+", "-", "*", "/", ">", "<", "=", "%", "!", "?"}

(* the bytes parse_symbol_with_lead accepts after the lead *)
IsSymbolRest(ch) ==
    IsAsciiAlphanumeric(ch) \/
    ch \in {"!", "$", "%", "&", "*", "/", ":", "<", "=", ">", "?", "^", "_", "~", "+", "-"}

(* variant: a comment runs to the end of the input *)
SkipComment_ToEnd(input, pos) == Len(input)

(* the comment loop of skip_whitespace: next() until a newline was read *)
RECURSIVE SkipComment(_, _)
SkipComment(input, pos) ==
    IF pos >= Len(input) THEN pos
    ELSE IF input[pos + 1] = "\n" THEN pos + 1
    ELSE SkipComment(input, pos + 1)

(* Parser::skip_whitespace *)
RECURSIVE SkipWhitespace(_, _)
SkipWhitespace(input, pos) ==
    LET ch == Peek(input, pos)
    IN IF ch = EOF THEN pos
       ELSE IF IsWhitespace(ch) THEN SkipWhitespace(input, pos + 1)
       ELSE IF ch = ";" THEN SkipWhitespace(input, SkipComment(input, pos))
       ELSE pos

(* the digits of a token as a number; the sum stops growing once it is    *)
(* out of the integer range                                               *)
RECURSIVE AccDigits(_, _, _, _)
AccDigits(digits, i, acc, radix) ==
    IF i > Len(digits) \/ acc > IntMax + 1 THEN acc
    ELSE AccDigits(digits, i + 1, acc * radix + DigitValue(digits[i]), radix)

(* i64::from_str_radix; str::parse::<i64> is the radix 10 case *)
FromStrRadix(token, radix) ==
    LET signed == Len(token) > 0 /\ token[1] \in {"+", "-"}
        digits == IF signed THEN Tail(token) ELSE token
        n == AccDigits(digits, 1, 0, radix)
        num == IF signed /\ token[1] = "-" THEN 0 - n ELSE n
    IN IF Len(digits) = 0 \/ \E i \in 1..Len(digits) : ~IsDigit(digits[i], radix)
       THEN Err("SyntaxError")
       ELSE IF InRange(num) THEN Ok(NumberInt(num)) ELSE Err("SyntaxError")

(* str::parse::<f64> on a token of signs, digits, '.', 'e' and 'E':       *)
(* [sign] (digits | digits '.' [digits] | '.' digits) ['e' [sign] digits] *)
RECURSIVE FloatScan(_, _, _)
FloatScan(token, i, state) ==
    IF i > Len(token) THEN state \in {"int", "frac", "exp"}
    ELSE LET ch == token[i]
             next ==
                CASE state = "start" /\ ch \in {"+", "-"} -> "sign"
                  [] state \in {"start", "sign", "int"} /\ IsAsciiDigit(ch) -> "int"
                  [] state \in {"start", "sign"} /\ ch = "." -> "dot"
                  [] state = "int" /\ ch = "." -> "frac"
                  [] state \in {"dot", "frac"} /\ IsAsciiDigit(ch) -> "frac"
                  [] state \in {"int", "frac"} /\ ch \in {"e", "E"} -> "e"
                  [] state = "e" /\ ch \in {"+", "-"} -> "esign"
                  [] state \in {"e", "esign", "exp"} /\ IsAsciiDigit(ch) -> "exp"
                  [] OTHER -> "bad"
         IN next # "bad" /\ FloatScan(token, i + 1, next)

ParseF64(token) == IF FloatScan(token, 1, "start") THEN Ok(Float) ELSE Err("SyntaxError")

(* the while loop of parse_number_with_sign *)
RECURSIVE NumberLoop(_, _, _, _, _)
NumberLoop(input, pos, token, has_dot, has_exponent) ==
    LET ch == Peek(input, pos)
    IN IF IsAsciiDigit(ch)
       THEN NumberLoop(input, pos + 1, Append(token, ch), has_dot, has_exponent)
       ELSE IF ch = "." /\ ~has_dot /\ ~has_exponent
       THEN NumberLoop(input, pos + 1, Append(token, ch), TRUE, has_exponent)
       ELSE IF ch = "e" \/ (ch = "E" /\ ~has_exponent)
       THEN IF Peek(input, pos + 1) \in {"-", "+"}
            THEN NumberLoop(input, pos + 2, token \o <<ch, Peek(input, pos + 1)>>,
                            has_dot, TRUE)
            ELSE NumberLoop(input, pos + 1, Append(token, ch), has_dot, TRUE)
       ELSE [pos |-> pos, token |-> token, float |-> has_dot \/ has_exponent]

(* Parser::parse_number_with_sign; sign is EOF for None *)
ParseNumberWithSign(h, input, pos, sign) ==
    LET token0 == IF sign # EOF THEN <<sign>> ELSE <<>>
        swallow == Peek(input, pos) \in {"-", "+"}
        l == NumberLoop(input, IF swallow THEN pos + 1 ELSE pos,
                        IF swallow THEN Append(token0, Peek(input, pos)) ELSE token0,
                        FALSE, FALSE)
    IN PR(h, l.pos, IF l.float THEN ParseF64(l.token) ELSE FromStrRadix(l.token, 10))

(* Parser::parse_number *)
ParseNumber(h, input, pos) == ParseNumberWithSign(h, input, pos, EOF)

(* the while loop of parse_symbol_with_lead *)
RECURSIVE SymbolLoop(_, _, _)
SymbolLoop(input, pos, token) ==
    IF IsSymbolRest(Peek(input, pos))
    THEN SymbolLoop(input, pos + 1, Append(token, Peek(input, pos)))
    ELSE [pos |-> pos, token |-> token]

(* Parser::parse_symbol_with_lead: Interp::lookup interns the token *)
ParseSymbolWithLead(h, input, pos, lead) ==
    LET l == SymbolLoop(input, pos, IF lead # EOF THEN <<lead>> ELSE <<>>)
        r == InternSymbol(h, Join(l.token))
    IN PR(r.h, l.pos, Ok(r.val))

(* Parser::parse_symbol *)
ParseSymbol(h, input, pos) == ParseSymbolWithLead(h, input, pos, EOF)

(* the while loop of parse_hash_number *)
RECURSIVE HashNumberLoop(_, _, _, _)
HashNumberLoop(input, pos, token, radix) ==
    IF Peek(input, pos) # EOF /\ IsDigit(Peek(input, pos), radix)
    THEN HashNumberLoop(input, pos + 1, Append(token, Peek(input, pos)), radix)
    ELSE [pos |-> pos, token |-> token]

(* Parser::parse_hash_number *)
ParseHashNumber(h, input, pos, radix) ==
    LET l == HashNumberLoop(input, pos, <<>>, radix)
    IN PR(h, l.pos, FromStrRadix(l.token, radix))

(* the while loop of parse_hash_character *)
RECURSIVE HashCharacterLoop(_, _, _)
HashCharacterLoop(input, pos, token) ==
    IF IsAsciiAlphabetic(Peek(input, pos))
    THEN HashCharacterLoop(input, pos + 1, Append(token, Peek(input, pos)))
    ELSE [pos |-> pos, token |-> token]

CharNames ==
    [space |-> 32, backspace |-> 8, tab |-> 9, newline |-> 10, return |-> 13]

(* Parser::parse_hash_character *)
ParseHashCharacter(h, input, pos) ==
    LET l == HashCharacterLoop(input, pos, <<>>)
        name == Join([i \in 1..Len(l.token) |-> ToAsciiLowercase(l.token[i])])
    IN PR(h, l.pos,
          IF Len(l.token) = 1 THEN Ok(Char(AsciiCode(l.token[1])))
          ELSE IF name \in DOMAIN CharNames THEN Ok(Char(CharNames[name]))
          ELSE Err("SyntaxError"))

(* Parser::parse_hash *)
ParseHash(h, input, pos) ==
    LET c == CheckFor(input, pos, "#")
        ch == Peek(input, c.pos)
        p == NextPos(input, c.pos)
    IN IF ~c.ok THEN PR(h, c.pos, Err("SyntaxError"))
       ELSE IF ch = EOF THEN PR(h, p, Err("SyntaxError"))
       ELSE IF ToAsciiLowercase(ch) = "t" THEN PR(h, p, Ok(Bool(TRUE)))
       ELSE IF ToAsciiLowercase(ch) = "f" THEN PR(h, p, Ok(Bool(FALSE)))
       ELSE IF ch = "b" THEN ParseHashNumber(h, input, p, 2)
       ELSE IF ch = "o" THEN ParseHashNumber(h, input, p, 8)
       ELSE IF ch = "d" THEN ParseHashNumber(h, input, p, 10)
       ELSE IF ch = "x" THEN ParseHashNumber(h, input, p, 16)
       ELSE IF ch = "\\" THEN ParseHashCharacter(h, input, p)
       ELSE PR(h, p, Err("SyntaxError"))

(* the while loop of parse_string *)
RECURSIVE StringLoop(_, _, _, _)
StringLoop(h, input, pos, token) ==
    LET ch == Peek(input, pos)
    IN IF ch = EOF THEN PR(h, pos, Err("SyntaxError"))
       ELSE IF ch = "\"" 
       THEN LET r == AllocString(h, Join(token)) IN PR(r.h, pos + 1, Ok(r.val))
       ELSE IF ch = "\\"
       THEN IF Peek(input, pos + 1) = EOF THEN PR(h, pos + 1, Err("SyntaxError"))
            ELSE StringLoop(h, input, pos + 2, Append(token, Peek(input, pos + 1)))
       ELSE StringLoop(h, input, pos + 1, Append(token, ch))

(* Parser::parse_string *)
ParseString(h, input, pos) ==
    LET c == CheckFor(input, pos, "\"")
    IN IF ~c.ok THEN PR(h, c.pos, Err("SyntaxError"))
       ELSE StringLoop(h, input, c.pos, <<>>)

RECURSIVE ReadBytes(_, _, _, _)
RECURSIVE ParseListLoop(_, _, _, _, _)

(* Parser::parse_list after its first skip_whitespace: the item loop, then *)
(* check_for(b')') and alloc_list(items)                                   *)
ParseListLoop(h, input, pos, items, depth) ==
    LET ch == Peek(input, pos)
    IN IF ch # EOF /\ ch # ")"
       THEN LET r == ReadBytes(h, input, pos, depth)
            IN IF ~r.res.ok THEN r
               ELSE ParseListLoop(r.h, input, SkipWhitespace(input, r.pos),
                                  Append(items, r.res.val), depth)
       ELSE LET c == CheckFor(input, pos, ")")
                l == AllocList(h, items)
            IN IF ~c.ok THEN PR(h, c.pos, Err("SyntaxError"))
               ELSE PR(l.h, c.pos, Ok(l.val))

(* Parser::parse_list *)
ParseListBytes(h, input, pos, depth) ==
    ParseListLoop(h, input, SkipWhitespace(input, pos), <<>>, depth)

(* variant: the unexpected character is reported and left in the input *)
ReadBytes_KeepsUnexpected(h, input, pos0, depth) ==
    LET pos == SkipWhitespace(input, pos0)
        ch == Peek(input, pos)
    IN IF depth = 0 THEN PR(h, pos, Err("StackOverflow"))
       ELSE IF ch = EOF THEN PR(h, pos, Ok(Nil))
       ELSE IF ch = "(" THEN ParseListBytes(h, input, pos + 1, depth - 1)
       ELSE IF ch \in {"+", "-"}
       THEN IF IsAsciiDigit(Peek(input, pos + 1))
            THEN ParseNumberWithSign(h, input, pos + 1, ch)
            ELSE ParseSymbolWithLead(h, input, pos + 1, ch)
       ELSE IF IsAsciiDigit(ch) THEN ParseNumber(h, input, pos)
       ELSE IF IsSymbolLead(ch) THEN ParseSymbol(h, input, pos)
       ELSE IF ch = "#" THEN ParseHash(h, input, pos)
       ELSE IF ch = "\"" THEN ParseString(h, input, pos)
       ELSE IF ch = "'"
       THEN LET quoted == ReadBytes(h, input, pos + 1, depth - 1)
                l == AllocList(quoted.h, <<Obj(KwQuote), quoted.res.val>>)
            IN IF ~quoted.res.ok THEN quoted
               ELSE PR(l.h, quoted.pos, Ok(l.val))
       ELSE PR(h, pos, Err("SyntaxError"))

(* Parser::read; depth bounds the nesting of read calls (the host stack) *)
ReadBytes(h, input, pos0, depth) ==
    LET pos == SkipWhitespace(input, pos0)
        ch == Peek(input, pos)
    IN IF depth = 0 THEN PR(h, pos, Err("StackOverflow"))
       ELSE IF ch = EOF THEN PR(h, pos, Ok(Nil))
       ELSE IF ch = "(" THEN ParseListBytes(h, input, pos + 1, depth - 1)
       ELSE IF ch \in {"+", "-"}
       THEN IF IsAsciiDigit(Peek(input, pos + 1))
            THEN ParseNumberWithSign(h, input, pos + 1, ch)
            ELSE ParseSymbolWithLead(h, input, pos + 1, ch)
       ELSE IF IsAsciiDigit(ch) THEN ParseNumber(h, input, pos)
       ELSE IF IsSymbolLead(ch) THEN ParseSymbol(h, input, pos)
       ELSE IF ch = "#" THEN ParseHash(h, input, pos)
       ELSE IF ch = "\"" THEN ParseString(h, input, pos)
       ELSE IF ch = "'"
       THEN LET quoted == ReadBytes(h, input, pos + 1, depth - 1)
                l == AllocList(quoted.h, <<Obj(KwQuote), quoted.res.val>>)
            IN IF ~quoted.res.ok THEN quoted
               ELSE PR(l.h, quoted.pos, Ok(l.val))
       ELSE PR(h, pos + 1, Err("SyntaxError"))

----------------------------------------------------------------------------
(* types.rs: Value::display; heap.rs: GcId::write_to.  The text is built   *)
(* by a sequence of write! calls; out is the sequence of the strings       *)
(* written so far.  The recursion of write_to is kept as a stack of work   *)
(* items, the top being the last: a pending write_to call of a Value, or   *)
(* a Pair loop about to test its variable p.                               *)

(* Display for i64 *)
RECURSIVE NatText(_)
NatText(n) ==
    IF n < 10 THEN DigitSeq[n + 1]
    ELSE NatText(n \div 10) \o DigitSeq[(n % 10) + 1]

IntText(n) == IF n < 0 THEN "-" \o NatText(0 - n) ELSE NatText(n)

(* Value::display of a Value that is not an Object *)
ValueText(val) ==
    CASE val.tag = "Int" -> IntText(val.v)
      [] val.tag = "Bool" -> IF val = Bool(TRUE) THEN "#t" ELSE "#f"
      [] val.tag = "Nil" -> "()"

WriteItem(val) == [kind |-> "write", v |-> val]
LoopItem(p) == [kind |-> "loop", v |-> p]

(* Interp::display: the call starts with the write_to of the value *)
PrinterStart(val, src) ==
    [status |-> "running", out |-> <<>>, stack |-> <<WriteItem(val)>>,
     val |-> val, src |-> src]

(* the else branch of the Pair loop: p.write_to(..), p is left as it is *)
LoopTerminator(rest, p) == rest \o <<LoopItem(p), WriteItem(p)>>

(* one step of write_to: the top work item runs up to its next write_to    *)
(* call or to its end                                                      *)
PrinterStep(objs, pr) ==
    LET top == pr.stack[Len(pr.stack)]
        rest == SubSeq(pr.stack, 1, Len(pr.stack) - 1)
        next ==
          IF top.kind = "write"
          THEN IF ~IsObj(top.v)
               THEN [out |-> <<ValueText(top.v)>>, stack |-> rest]
               ELSE LET obj == Get(objs, top.v.v)
                    IN CASE obj.type = "Pair" ->
                            [out |-> <<"(">>,
                             stack |-> rest \o <<LoopItem(obj.cdr), WriteItem(obj.car)>>]
                         [] obj.type = "Symbol" -> [out |-> <<obj.name>>, stack |-> rest]
                         [] obj.type = "String" ->
                            [out |-> <<"\"" \o obj.s \o "\"">>, stack |-> rest]
                         [] obj.type = "Primitive" ->
                            [out |-> <<"<primitive " \o obj.fn \o ">">>, stack |-> rest]
                         [] obj.type = "Closure" ->
                            [out |-> <<"<closure " \o NatText(top.v.v) \o ">">>,
                             stack |-> rest]
          ELSE IF IsPair(objs, top.v)
               THEN [out |-> <<" ">>,
                     stack |-> rest \o <<LoopItem(Get(objs, top.v.v).cdr),
                                         WriteItem(Get(objs, top.v.v).car)>>]
               ELSE IF top.v = Nil
               THEN [out |-> <<")">>, stack |-> rest]
               ELSE [out |-> <<" . ">>, stack |-> LoopTerminator(rest, top.v)]
    IN [pr EXCEPT !.out = @ \o next.out,
                  !.stack = next.stack,
                  !.status = IF Len(next.stack) = 0 THEN "done" ELSE "running"]

----------------------------------------------------------------------------
(* The programs the interpreter is run on, one top-level expression each.  *)

Define(name, d) == DList(<<DSym("define"), DSym(name), d>>)
SetBang(name, d) == DList(<<DSym("set!"), DSym(name), d>>)
If(c, t, e) == DList(<<DSym("if"), c, t, e>>)
Lambda1(param, body) == DList(<<DSym("lambda"), DList(<<DSym(param)>>)>> \o body)
Lambda2(p1, p2, body) ==
    DList(<<DSym("lambda"), DList(<<DSym(p1), DSym(p2)>>)>> \o body)

Programs ==
    [define_x |-> Define("x", DInt(1)),                 \* (define x 1)
     x |-> DSym("x"),                                   \* x
     set_x |-> SetBang("x", DInt(2)),                   \* (set! x 2)
     set_y |-> SetBang("y", DInt(1)),                   \* (set! y 1)
     define_if |-> Define("if", DInt(5)),               \* (define if 5)
     if |-> DSym("if"),                                 \* if
     add_if |-> DList(<<DSym("+"), DSym("if"), DInt(1)>>),   \* (+ if 1)
     if_true |-> If(DBool(TRUE), DInt(1), DInt(2)),     \* (if #t 1 2)
     if_zero |-> If(DInt(0), DInt(1), DInt(2)),         \* (if 0 1 2)
     if_nil |-> If(DList(<<>>), DInt(1), DInt(2)),      \* (if () 1 2)
     \* (if (define c #f) (define t 1) (define e 2))
     if_effects |-> If(Define("c", DBool(FALSE)), Define("t", DInt(1)),
                       Define("e", DInt(2))),
     \* (((lambda (x) (lambda (y) (+ x y))) 1) 2)
     curried_add |->
        DList(<<DList(<<Lambda1("x", <<Lambda1("y",
                    <<DList(<<DSym("+"), DSym("x"), DSym("y")>>)>>)>>), DInt(1)>>),
                DInt(2)>>),
     \* (foo (define x 1))
     unbound_op |-> DList(<<DSym("foo"), Define("x", DInt(1))>>),
     \* ((lambda (x) (define y x) (set! x 7) (+ x y)) 3)
     local_define |->
        DList(<<Lambda1("x", <<Define("y", DSym("x")), SetBang("x", DInt(7)),
                              DList(<<DSym("+"), DSym("x"), DSym("y")>>)>>),
                DInt(3)>>),
     \* ((lambda (x) (define x 5) x) 3)
     redefine_param |->
        DList(<<Lambda1("x", <<Define("x", DInt(5)), DSym("x")>>), DInt(3)>>),
     \* ((lambda (z) (set! x z)) 9)
     set_outer |-> DList(<<Lambda1("z", <<SetBang("x", DSym("z"))>>), DInt(9)>>),
     \* (define f (lambda (z) x))
     define_f |-> Define("f", Lambda1("z", <<DSym("x")>>)),
     \* (f 0)
     call_f |-> DList(<<DSym("f"), DInt(0)>>),
     quote_if |-> DQuote(DSym("if")),                   \* 'if
     string |-> DStr("hello"),                          \* "hello"
     list |-> DList(<<DSym("list"), DInt(1), DInt(2)>>), \* (list 1 2)
     \* ((lambda (a b) (- a b)) 5 3)
     sub_two |-> DList(<<Lambda2("a", "b", <<DList(<<DSym("-"), DSym("a"), DSym("b")>>)>>),
                        DInt(5), DInt(3)>>),
     \* ((lambda (z) (set! x z) (foo) (set! x 0)) 9)
     body_fails |->
        DList(<<Lambda1("z", <<SetBang("x", DSym("z")), DList(<<DSym("foo")>>),
                              SetBang("x", DInt(0))>>),
                DInt(9)>>),
     \* ((lambda (z) (set! x z)) 8 2)
     too_many |-> DList(<<Lambda1("z", <<SetBang("x", DSym("z"))>>), DInt(8), DInt(2)>>),
     \* ((lambda (a b) (set! x a)))
     too_few |-> DList(<<Lambda2("a", "b", <<SetBang("x", DSym("a"))>>)>>),
     \* ((lambda (x)) 1)
     apply_no_body |-> DList(<<Lambda1("x", <<>>), DInt(1)>>),
     \* (lambda 5 1)
     lambda_num_params |-> DList(<<DSym("lambda"), DInt(5), DInt(1)>>),
     \* (lambda (x 1) x)
     lambda_bad_list |->
        DList(<<DSym("lambda"), DList(<<DSym("x"), DInt(1)>>), DSym("x")>>),
     define_str |-> DList(<<DSym("define"), DStr("s"), DInt(1)>>),   \* (define "s" 1)
     define_num |-> DList(<<DSym("define"), DInt(5), DInt(1)>>),     \* (define 5 1)
     set_str |-> DList(<<DSym("set!"), DStr("s"), DInt(1)>>),        \* (set! "s" 1)
     \* (car '(1 2))
     car_quoted |-> DList(<<DSym("car"), DQuote(DList(<<DInt(1), DInt(2)>>))>>),
     \* (car (cdr '(1 2)))
     cadr_quoted |->
        DList(<<DSym("car"),
                DList(<<DSym("cdr"), DQuote(DList(<<DInt(1), DInt(2)>>))>>)>>),
     car_num |-> DList(<<DSym("car"), DInt(5)>>),                    \* (car 5)
     list_empty |-> DList(<<DSym("list")>>)                          \* (list)
    ]

----------------------------------------------------------------------------
(* The state machine: an interpreter created by Interp::new, driven by a   *)
(* read-eval loop (Spec) or by direct calls of the heap (SpecHeap).        *)

Init ==
    LET n == InterpNew
    IN /\ objects = n.s.h.objects
       /\ symbols = n.s.h.symbols
       /\ frames = n.s.frames
       /\ expr = Nil
       /\ result = IF n.ok THEN NoResult ELSE Err("Panic")
       /\ trace = <<>>
       /\ last = [op |-> "new", prog |-> "", name |-> ""]
       /\ interned = <<>>
       /\ nreads = 0
       /\ napi = 0
       /\ overflow_checks \in BOOLEAN
       /\ parser = [n |-> 0, input |-> <<>>, start |-> 0, pos |-> 0, reads |-> 0,
                    res |-> NoResult]
       /\ printer = [status |-> "idle", out |-> <<>>, stack |-> <<>>, val |-> Nil,
                     src |-> ""]

(* the process is still running and not inside a display call: no panic   *)
(* has unwound out of a call                                               *)
Alive == ~Aborted(result) /\ printer.status # "running"

Heap == [objects |-> objects, symbols |-> symbols]

(* Parser::read of the next top-level expression *)
Read(i) ==
    /\ Alive
    /\ nreads < MaxReads
    /\ last.op # "read"
    /\ LET r == ReadDatum(Heap, Programs[i])
       IN /\ objects' = r.h.objects
          /\ symbols' = r.h.symbols
          /\ expr' = r.val
    /\ last' = [op |-> "read", prog |-> i, name |-> ""]
    /\ nreads' = nreads + 1
    /\ UNCHANGED <<frames, result, trace, interned, napi, overflow_checks,
                 parser, printer>>

(* Interp::eval of the value just read or allocated *)
Eval ==
    /\ Alive
    /\ last.op \notin {"new", "eval"}
    /\ LET r == InterpEval(objects, frames, overflow_checks, expr)
       IN /\ objects' = r.st.objects
          /\ frames' = r.st.frames
          /\ trace' = r.st.trace
          /\ result' = r.res
    /\ last' = [op |-> "eval", prog |-> last.prog, name |-> ""]
    /\ UNCHANGED <<symbols, expr, interned, nreads, napi, overflow_checks,
                 parser, printer>>

(* Heap::intern_symbol *)
ApiNames == {"if", "set!", "foo", "bar"}

ApiInternSymbol(name) ==
    /\ Alive
    /\ napi < MaxApi
    /\ LET r == InternSymbol(Heap, name)
       IN /\ objects' = r.h.objects
          /\ symbols' = r.h.symbols
          /\ expr' = r.val
          /\ interned' = Append(interned, [name |-> name, id |-> r.val.v])
    /\ last' = [op |-> "intern_symbol", prog |-> "", name |-> name]
    /\ napi' = napi + 1
    /\ UNCHANGED <<frames, result, trace, nreads, overflow_checks,
                 parser, printer>>

(* the Values a client of the heap holds *)
ApiValues == {expr, NumberInt(1), Nil}

(* Heap::alloc_pair *)
ApiAllocPair(car, cdr) ==
    /\ Alive
    /\ napi < MaxApi
    /\ LET r == AllocPair(Heap, car, cdr)
       IN /\ objects' = r.h.objects
          /\ expr' = r.val
    /\ last' = [op |-> "alloc_pair", prog |-> "", name |-> ""]
    /\ napi' = napi + 1
    /\ UNCHANGED <<symbols, frames, result, trace, interned, nreads, overflow_checks,
                 parser, printer>>

(* Heap::alloc_list *)
ApiLists == {<<>>, <<expr>>, <<expr, NumberInt(2)>>, <<Obj(KwQuote), expr>>}

ApiAllocList(items) ==
    /\ Alive
    /\ napi < MaxApi
    /\ LET r == AllocList(Heap, items)
       IN /\ objects' = r.h.objects
          /\ expr' = r.val
    /\ last' = [op |-> "alloc_list", prog |-> "", name |-> ""]
    /\ napi' = napi + 1
    /\ UNCHANGED <<symbols, frames, result, trace, interned, nreads, overflow_checks,
                 parser, printer>>

(* Heap::alloc_string *)
ApiStrings == {"if", "hello"}

ApiAllocString(str) ==
    /\ Alive
    /\ napi < MaxApi
    /\ LET r == AllocString(Heap, str)
       IN /\ objects' = r.h.objects
          /\ expr' = r.val
    /\ last' = [op |-> "alloc_string", prog |-> "", name |-> str]
    /\ napi' = napi + 1
    /\ UNCHANGED <<symbols, frames, result, trace, interned, nreads, overflow_checks,
                 parser, printer>>

(* The texts a Parser is created on *)
CanonicalTexts ==
    {<<"4", "2">>,                                             \* 42
     <<"-", "5">>,                                             \* -5
     <<"#", "t">>,                                             \* #t
     <<"#", "f">>,                                             \* #f
     <<"(", ")">>,                                             \* ()
     <<"f", "o", "o">>,                                        \* foo
     <<"\"", "h", "i", "\"">>,                                 \* "hi"
     <<"(", "1", " ", "2", ")">>,                              \* (1 2)
     <<"(", "a", " ", "(", "#", "f", ")", " ", "\"", "s", "\"", ")">>, \* (a (#f) "s")
     <<"\"", "a", "\\", "\"", "b", "\"">>,                     \* "a\"b"
     <<"\"", "a", "\\", "\\", "b", "\"">>}                     \* "a\\b"

MalformedTexts ==
    {<<"\"", "a", "b">>,                                       \* "ab
     <<"\"", "a", "\\">>,                                      \* "a\
     <<"(", "1", " ", "2">>,                                   \* (1 2
     <<"(">>,                                                  \* (
     <<"(", "a", " ", "(", "b", ")">>,                         \* (a (b)
     <<"1", "e">>,                                             \* 1e
     <<"1", ".", "5", "e", "+">>,                              \* 1.5e+
     <<"9", "9", "9">>,                                        \* 999
     <<"#", "z">>,                                             \* #z
     <<"#">>,                                                  \* #
     <<"#", "b", "2">>,                                        \* #b2
     <<"#", "\\", "a", "b">>,                                  \* #\ab
     <<")">>,                                                  \* )
     <<" ", ")">>,                                             \*  )
     <<"(", "*", ",", " ", "2", " ", "3", ")">>}               \* (*, 2 3)

OtherTexts ==
    {<<>>,                                                     \* the empty input
     <<"1", ".", "5">>,                                        \* 1.5
     <<"#", "x", "1", "F">>,                                   \* #x1F
     <<"#", "\\", "A">>,                                       \* #\A
     <<"'", "a">>,                                             \* 'a
     <<"-", "x">>,                                             \* -x
     <<"+", "7">>,                                             \* +7
     <<"1", " ", ";", "c", "\n", "2">>}                        \* 1 ;c\n2

(* Texts of several top-level expressions: each part is the whitespace and *)
(* comments before an expression, the expression and the datum it denotes; *)
(* trail is the whitespace and comments after the last expression.         *)
Part(sep, text, datum) == [sep |-> sep, text |-> text, datum |-> datum]

SequenceTexts ==
    <<\* 1 ;c\n2
      [parts |-> <<Part(<<>>, <<"1">>, DInt(1)),
                   Part(<<" ", ";", "c", "\n">>, <<"2">>, DInt(2))>>,
       trail |-> <<>>],
      \* _a (b 1)\n"s" ; end
      [parts |-> <<Part(<<" ">>, <<"a">>, DSym("a")),
                   Part(<<" ">>, <<"(", "b", " ", "1", ")">>,
                        DList(<<DSym("b"), DInt(1)>>)),
                   Part(<<"\n">>, <<"\"", "s", "\"">>, DStr("s"))>>,
       trail |-> <<" ", ";", " ", "e", "n", "d">>],
      \* (1)(2)
      [parts |-> <<Part(<<>>, <<"(", "1", ")">>, DList(<<DInt(1)>>)),
                   Part(<<>>, <<"(", "2", ")">>, DList(<<DInt(2)>>))>>,
       trail |-> <<>>],
      \* () #t -5_
      [parts |-> <<Part(<<>>, <<"(", ")">>, DList(<<>>)),
                   Part(<<" ">>, <<"#", "t">>, DBool(TRUE)),
                   Part(<<" ">>, <<"-", "5">>, DInt(-5))>>,
       trail |-> <<" ">>],
      \* 'a b\t
      [parts |-> <<Part(<<>>, <<"'", "a">>, DList(<<DSym("quote"), DSym("a")>>)),
                   Part(<<" ">>, <<"b">>, DSym("b"))>>,
       trail |-> <<"\t">>],
      \* ;c\n_
      [parts |-> <<>>, trail |-> <<";", "c", "\n", " ">>]>>

(* the bytes of the first k parts of a text of several expressions *)
RECURSIVE PartsText(_, _)
PartsText(t, k) ==
    IF k = 0 THEN <<>>
    ELSE PartsText(t, k - 1) \o t.parts[k].sep \o t.parts[k].text

TextOf(t) == PartsText(t, Len(t.parts)) \o t.trail

Texts ==
    CanonicalTexts \cup MalformedTexts \cup OtherTexts \cup
    {TextOf(SequenceTexts[i]) : i \in 1..Len(SequenceTexts)}

(* Parser::new *)
ParserNew(text) ==
    /\ Alive
    /\ parser.n < MaxParsers
    /\ parser' = [n |-> parser.n + 1, input |-> text, start |-> 0, pos |-> 0,
                  reads |-> 0, res |-> NoResult]
    /\ last' = [op |-> "parser_new", prog |-> "", name |-> Join(text)]
    /\ UNCHANGED <<objects, symbols, frames, expr, result, trace, interned, nreads,
                   napi, overflow_checks, printer>>

(* Parser::read on the bytes the parser has left; a client stops reading   *)
(* once a read at the end of the input has returned Nil                    *)
ParserRead ==
    /\ Alive
    /\ parser.n > 0
    /\ ~(parser.res = Ok(Nil) /\ parser.start = Len(parser.input))
    /\ LET r == ReadBytes(Heap, parser.input, parser.pos, MaxDepth)
       IN /\ objects' = r.h.objects
          /\ symbols' = r.h.symbols
          /\ expr' = IF r.res.ok THEN r.res.val ELSE expr
          /\ parser' = [parser EXCEPT !.start = parser.pos, !.pos = r.pos,
                                      !.reads = @ + 1, !.res = r.res]
    /\ last' = [op |-> "parser_read", prog |-> "", name |-> last.name]
    /\ nreads' = nreads + 1
    /\ UNCHANGED <<frames, result, trace, interned, napi, overflow_checks, printer>>

(* Interp::display of the value just read or allocated; src is the text    *)
(* the value was read from                                                 *)
Display ==
    /\ Alive
    /\ last.op \in {"parser_read", "alloc_pair"}
    /\ last.op = "parser_read" => parser.res.ok
    /\ expr.tag \notin {"Float", "Char"}
    /\ printer' = PrinterStart(expr,
                     IF last.op = "parser_read"
                     THEN Join(SubSeq(parser.input, parser.start + 1, parser.pos))
                     ELSE "")
    /\ last' = [op |-> "display", prog |-> "", name |-> last.name]
    /\ UNCHANGED <<objects, symbols, frames, expr, result, trace, interned, nreads,
                   napi, overflow_checks, parser>>

(* the display call in progress runs on to its next write! *)
PrintStep ==
    /\ printer.status = "running"
    /\ Len(printer.out) < MaxOut
    /\ printer' = PrinterStep(objects, printer)
    /\ UNCHANGED <<objects, symbols, frames, expr, result, trace, last, interned,
                   nreads, napi, overflow_checks, parser>>

Next ==
    \/ \E i \in DOMAIN Programs : Read(i)
    \/ Eval

Spec == Init /\ [][Next]_vars

NextHeap ==
    \/ \E name \in ApiNames : ApiInternSymbol(name)
    \/ \E car \in ApiValues, cdr \in ApiValues : ApiAllocPair(car, cdr)
    \/ \E items \in ApiLists : ApiAllocList(items)
    \/ \E str \in ApiStrings : ApiAllocString(str)
    \/ Eval

SpecHeap == Init /\ [][NextHeap]_vars

(* a client that reads texts and displays the values read *)
NextRead ==
    \/ \E text \in Texts : ParserNew(text)
    \/ ParserRead
    \/ Display
    \/ PrintStep

SpecRead == Init /\ [][NextRead]_vars

(* a client that allocates Pairs and displays them *)
NextPrint ==
    \/ \E car \in ApiValues, cdr \in ApiValues : ApiAllocPair(car, cdr)
    \/ Display
    \/ PrintStep

SpecPrint == Init /\ [][NextPrint]_vars

(* Special forms with too few and too many arguments, the surplus and the  *)
(* remaining arguments being forms that would define a variable.           *)
FormPrograms ==
    [f_define_x |-> Define("x", DInt(1)),                       \* (define x 1)
     \* (if (define a 1) 2)
     f_if_two |-> DList(<<DSym("if"), Define("a", DInt(1)), DInt(2)>>),
     \* (if (define c #t) (define t 1) 2 3)
     f_if_four |-> DList(<<DSym("if"), Define("c", DBool(TRUE)), Define("t", DInt(1)),
                           DInt(2), DInt(3)>>),
     f_if_none |-> DList(<<DSym("if")>>),                       \* (if)
     f_define_one |-> DList(<<DSym("define"), DSym("x")>>),     \* (define x)
     \* (define x (define w 1) 3)
     f_define_three |-> DList(<<DSym("define"), DSym("x"), Define("w", DInt(1)),
                                DInt(3)>>),
     f_set_one |-> DList(<<DSym("set!"), DSym("x")>>),          \* (set! x)
     \* (set! x (define w 1) 3)
     f_set_three |-> DList(<<DSym("set!"), DSym("x"), Define("w", DInt(1)), DInt(3)>>),
     f_quote_none |-> DList(<<DSym("quote")>>),                 \* (quote)
     \* (quote a b)
     f_quote_two |-> DList(<<DSym("quote"), DSym("a"), DSym("b")>>),
     \* (if #t (set! x 2) 3)
     f_if_three |-> If(DBool(TRUE), SetBang("x", DInt(2)), DInt(3))
    ]

(* Parser::read of a special form *)
ReadForm(i) ==
    /\ Alive
    /\ nreads < MaxReads
    /\ last.op # "read"
    /\ LET r == ReadDatum(Heap, FormPrograms[i])
       IN /\ objects' = r.h.objects
          /\ symbols' = r.h.symbols
          /\ expr' = r.val
    /\ last' = [op |-> "read", prog |-> i, name |-> ""]
    /\ nreads' = nreads + 1
    /\ UNCHANGED <<frames, result, trace, interned, napi, overflow_checks,
                 parser, printer>>

NextForms ==
    \/ \E i \in DOMAIN FormPrograms : ReadForm(i)
    \/ Eval

SpecForms == Init /\ [][NextForms]_vars

(* Calls of exit and quit with status codes at and around the ends of the  *)
(* i32 range                                                               *)
ExitPrograms ==
    [e_exit_3 |-> DList(<<DSym("exit"), DInt(3)>>),               \* (exit 3)
     e_quit_0 |-> DList(<<DSym("quit"), DInt(0)>>),               \* (quit 0)
     e_exit_max |-> DList(<<DSym("exit"), DInt(I32Max)>>),        \* (exit i32::MAX)
     e_quit_min |-> DList(<<DSym("quit"), DInt(I32Min)>>),        \* (quit i32::MIN)
     e_exit_above |-> DList(<<DSym("exit"), DInt(I32Max + 1)>>),  \* (exit 2147483648)
     e_quit_below |-> DList(<<DSym("quit"), DInt(I32Min - 1)>>),  \* (quit -2147483649)
     e_exit_i64max |-> DList(<<DSym("exit"), DInt(IntMax)>>),     \* (exit i64::MAX)
     e_quit_i64min |-> DList(<<DSym("quit"), DInt(IntMin)>>),     \* (quit i64::MIN)
     \* (exit (- 0 1))
     e_exit_computed |-> DList(<<DSym("exit"), DList(<<DSym("-"), DInt(0), DInt(1)>>)>>),
     e_exit_none |-> DList(<<DSym("exit")>>),                     \* (exit)
     e_quit_bool |-> DList(<<DSym("quit"), DBool(TRUE)>>),        \* (quit #t)
     e_one |-> DInt(1)                                            \* 1
    ]

(* Parser::read of a call of exit or quit *)
ReadExit(i) ==
    /\ Alive
    /\ nreads < MaxReads
    /\ last.op # "read"
    /\ LET r == ReadDatum(Heap, ExitPrograms[i])
       IN /\ objects' = r.h.objects
          /\ symbols' = r.h.symbols
          /\ expr' = r.val
    /\ last' = [op |-> "read", prog |-> i, name |-> ""]
    /\ nreads' = nreads + 1
    /\ UNCHANGED <<frames, result, trace, interned, napi, overflow_checks,
                 parser, printer>>

NextExit ==
    \/ \E i \in DOMAIN ExitPrograms : ReadExit(i)
    \/ Eval

SpecExit == Init /\ [][NextExit]_vars

(* Calls of the primitives on literal arguments: (op a1 .. an) with op a   *)
(* name Interp::init defines and up to three arguments, among them the     *)
(* ends of the Integer range, a Boolean, a String and ().                  *)
CallOps == {PrimTable[i][1] : i \in 1..Len(PrimTable)}

CallValues ==
    {DInt(IntMin), DInt(-1), DInt(0), DInt(1), DInt(2), DInt(IntMax),
     DBool(TRUE), DStr("s"), DList(<<>>)}

CallArgs ==
    {<<>>} \cup {<<a>> : a \in CallValues} \cup
    {<<a, b>> : a \in CallValues, b \in CallValues} \cup
    {<<DInt(IntMax), DInt(1), DInt(-1)>>, <<DInt(IntMin), DInt(1), DInt(-1)>>,
     <<DInt(IntMax), DInt(2), DInt(0)>>, <<DInt(2), DInt(3), DInt(4)>>,
     <<DInt(10), DInt(3), DInt(2)>>, <<DInt(2), DBool(TRUE), DInt(1)>>,
     <<DInt(IntMax), DInt(IntMax), DInt(IntMax)>>}

(* Parser::read of (op a1 .. an) by a new interpreter *)
ReadCall(op, args) ==
    /\ Alive
    /\ last.op = "new"
    /\ LET r == ReadDatum(Heap, DList(<<DSym(op)>> \o args))
       IN /\ objects' = r.h.objects
          /\ symbols' = r.h.symbols
          /\ expr' = r.val
    /\ last' = [op |-> "read", prog |-> "call", name |-> op]
    /\ nreads' = nreads + 1
    /\ UNCHANGED <<frames, result, trace, interned, napi, overflow_checks,
                 parser, printer>>

NextCall ==
    \/ \E op \in CallOps, args \in CallArgs : ReadCall(op, args)
    \/ Eval

SpecCall == Init /\ [][NextCall]_vars

(* Applications whose arguments allocate, fail or define a variable *)
ArgPrograms ==
    [\* ((lambda (f) 1) (lambda (x) x))
     a_lambda_arg |-> DList(<<Lambda1("f", <<DInt(1)>>), Lambda1("x", <<DSym("x")>>)>>),
     \* (+ 1 ((lambda (x) x) 2))
     a_closure_call_arg |->
        DList(<<DSym("+"), DInt(1), DList(<<Lambda1("x", <<DSym("x")>>), DInt(2)>>)>>),
     \* (list? (list 1 2))
     a_list_arg |-> DList(<<DSym("list?"), DList(<<DSym("list"), DInt(1), DInt(2)>>)>>),
     \* (null? (cdr '(1 2)))
     a_cdr_arg |->
        DList(<<DSym("null?"),
                DList(<<DSym("cdr"), DQuote(DList(<<DInt(1), DInt(2)>>))>>)>>),
     \* (+ 1 (+ 2 3))
     a_nested_add |-> DList(<<DSym("+"), DInt(1), DList(<<DSym("+"), DInt(2), DInt(3)>>)>>),
     \* (+ (define a 1) nosym (define b 2))
     a_fail_mid |-> DList(<<DSym("+"), Define("a", DInt(1)), DSym("nosym"),
                            Define("b", DInt(2))>>),
     \* (+ nosym (define b 2) nosym2)
     a_fail_first |-> DList(<<DSym("+"), DSym("nosym"), Define("b", DInt(2)),
                              DSym("nosym2")>>),
     \* ((lambda (p q) (define z 1)) nosym (define b 2))
     a_fail_closure |->
        DList(<<Lambda2("p", "q", <<Define("z", DInt(1))>>), DSym("nosym"),
                Define("b", DInt(2))>>),
     \* (nofn nosym (define b 2))
     a_fail_both |-> DList(<<DSym("nofn"), DSym("nosym"), Define("b", DInt(2))>>),
     \* ((define y 2) nosym)
     a_op_define |-> DList(<<Define("y", DInt(2)), DSym("nosym")>>),
     \* (+ (define a 1) (define b 2))
     a_no_fail |-> DList(<<DSym("+"), Define("a", DInt(1)), Define("b", DInt(2))>>)
    ]

(* Parser::read of an application *)
ReadArg(i) ==
    /\ Alive
    /\ nreads < MaxReads
    /\ last.op # "read"
    /\ LET r == ReadDatum(Heap, ArgPrograms[i])
       IN /\ objects' = r.h.objects
          /\ symbols' = r.h.symbols
          /\ expr' = r.val
    /\ last' = [op |-> "read", prog |-> i, name |-> ""]
    /\ nreads' = nreads + 1
    /\ UNCHANGED <<frames, result, trace, interned, napi, overflow_checks,
                 parser, printer>>

NextArgs ==
    \/ \E i \in DOMAIN ArgPrograms : ReadArg(i)
    \/ Eval

SpecArgs == Init /\ [][NextArgs]_vars

(* a client that builds lists of the Values it holds, lists of lists among *)
(* them                                                                    *)
ListArgs ==
    {<<>>, <<expr>>, <<NumberInt(1), expr>>, <<expr, Bool(TRUE), NumberInt(3)>>,
     <<Nil, Nil>>}

NextLists == \E items \in ListArgs : ApiAllocList(items)

SpecLists == Init /\ [][NextLists]_vars

(* sanity: the bounds of the model are never the reason for a result *)
NoStackOverflow == result.err \notin {"StackOverflow", "Unmodelled"}

----------------------------------------------------------------------------
(* Properties.  EvalStep holds of a step that is one Interp::eval call.    *)

EvalStep == last.op # "eval" /\ last'.op = "eval"

Evaluated(name) == last.op = "eval" /\ last.prog = name

(* the arguments of the combination expr, when expr is one *)
ExprArgs == FoldList(objects, Get(objects, expr.v).cdr)

(* expr is a combination whose operator is the keyword kw *)
IsForm(kw) ==
    /\ IsPair(objects, expr)
    /\ Get(objects, expr.v).car = Obj(kw)

(* read the datum d into the current heap and evaluate it at top level *)
ReadEval(d) ==
    LET r == ReadDatum(Heap, d)
    IN InterpEval(r.h.objects, frames, overflow_checks, r.val)

(* C1: a closure captures the frame its lambda expression was evaluated    *)
(* in, so the curried addition applied to 1 and then to 2 yields 3.        *)
C1_ClosureCapturesDefiningFrame ==
    /\ \A k \in 1..Len(trace) :
          trace[k].op = "lambda" => Get(objects, trace[k].key).env = trace[k].env
    /\ Evaluated("curried_add") => result = Ok(NumberInt(3))

(* C2: (if c t e) evaluates c once, then t when the value of c is anything *)
(* other than #f and e otherwise; the result and every effect are those of *)
(* c followed by the chosen branch alone.                                  *)
C2_IfTruthiness ==
    [][(EvalStep /\ IsForm(KwIf) /\ Len(ExprArgs) = 3) =>
        LET c == InterpEval(objects, frames, overflow_checks, ExprArgs[1])
            branch == IF c.res.val = Bool(FALSE) THEN ExprArgs[3] ELSE ExprArgs[2]
            b == ValueEval(c.st, branch, GlobalEnv, FALSE, MaxDepth)
        IN c.res.ok =>
             /\ result' = b.res
             /\ frames' = b.st.frames
             /\ objects' = b.st.objects]_vars

(* C3: in a combination whose operator is an unbound, non-keyword symbol   *)
(* the result is the operator's UnboundVariable error and no argument has  *)
(* been evaluated: no frame and no heap object has changed.                *)
C3_OperatorEvaluatedFirst ==
    [][(/\ EvalStep
        /\ IsPair(objects, expr)
        /\ IsSymbol(objects, Get(objects, expr.v).car)
        /\ ~IsKeyword(Get(objects, expr.v).car.v)
        /\ ~EnvLookup(frames, GlobalEnv, Get(objects, expr.v).car.v).found) =>
        /\ result' = ErrAt("UnboundVariable", Get(objects, expr.v).car.v)
        /\ frames' = frames
        /\ objects' = objects
        /\ trace' = <<>>]_vars

(* C4: interning is a bijection between names and symbol ids: every name  *)
(* of the table maps to the Symbol object of that name, every Symbol      *)
(* object is the table's entry for its name, and the ids intern_symbol    *)
(* has returned are equal exactly when the names are.                     *)
C4_InternBijective ==
    /\ \A n \in DOMAIN symbols :
          symbols[n] < Len(objects) /\ Get(objects, symbols[n]) = Symbol(n)
    /\ \A id \in 0..(Len(objects) - 1) :
          Get(objects, id).type = "Symbol" =>
             /\ Get(objects, id).name \in DOMAIN symbols
             /\ symbols[Get(objects, id).name] = id
    /\ \A a, b \in 1..Len(interned) :
          (interned[a].name = interned[b].name) <=> (interned[a].id = interned[b].id)
    /\ \A a \in 1..Len(interned) : symbols[interned[a].name] = interned[a].id

(* a name interned, another name interned, the first name interned again *)
C4_Witness ==
    /\ Len(interned) = 3
    /\ interned[1].name = "foo" /\ interned[2].name = "bar" /\ interned[3].name = "foo"
    /\ interned[1].id = interned[3].id
    /\ interned[2].id = interned[1].id + 1

(* C5: the keywords if, define, lambda, quote, #t, #f, set! have the ids   *)
(* 0..6: interning the name returns that id without allocating, and the    *)
(* object at that id is the Symbol of that name.                           *)
KeywordIds ==
    ("if" :> 0) @@ ("define" :> 1) @@ ("lambda" :> 2) @@ ("quote" :> 3) @@
    ("#t" :> 4) @@ ("#f" :> 5) @@ ("set!" :> 6)

C5_KeywordIdsFixed ==
    \A n \in DOMAIN KeywordIds :
       /\ InternSymbol(Heap, n) = [h |-> Heap, val |-> Obj(KeywordIds[n])]
       /\ Len(objects) > KeywordIds[n]
       /\ Get(objects, KeywordIds[n]) = Symbol(n)

(* set! interned by the client after other objects were allocated *)
C5_Witness ==
    /\ last.op = "intern_symbol" /\ last.name = "set!"
    /\ expr = Obj(KwSetBang)
    /\ napi = 3
    /\ Len(objects) > 52

(* C6: no Value of the interpreter names an object id outside the heap,    *)
(* and an object, once allocated, is never changed.                        *)
ValidValue(val) == IsObj(val) => val.v < Len(objects)

ValidObject(obj) ==
    CASE obj.type = "Pair" -> ValidValue(obj.car) /\ ValidValue(obj.cdr)
      [] obj.type = "Closure" ->
         /\ \A i \in 1..Len(obj.params) : obj.params[i] < Len(objects)
         /\ \A i \in 1..Len(obj.body) : ValidValue(obj.body[i])
         /\ obj.env \in 1..Len(frames)
      [] OTHER -> TRUE

ValidRefs ==
    /\ \A i \in 1..Len(objects) : ValidObject(objects[i])
    /\ \A f \in 1..Len(frames) : \A k \in DOMAIN frames[f].bindings :
          k < Len(objects) /\ ValidValue(frames[f].bindings[k])
    /\ ValidValue(expr)
    /\ ValidValue(result.val)

C6_HeapRefsNeverDangle ==
    /\ []ValidRefs
    /\ [][/\ Len(objects') >= Len(objects)
          /\ \A i \in 1..Len(objects) : objects'[i] = objects[i]]_vars

(* a closure returned by eval and bound in the global frame, with quoted   *)
(* data read afterwards                                                    *)
C6_Witness ==
    /\ \E k \in DOMAIN frames[GlobalEnv].bindings :
          /\ IsObj(frames[GlobalEnv].bindings[k])
          /\ Get(objects, frames[GlobalEnv].bindings[k].v).type = "Closure"
    /\ Evaluated("quote_if")
    /\ result = Ok(Obj(KwIf))

(* C7: a keyword symbol is a special form only as the operator of a       *)
(* combination.  Evaluated as a variable or as an argument it is looked   *)
(* up like any symbol, and binding it does not change the dispatch:       *)
(* (if #t 1 2) yields 1 in every state, also after (define if 5).         *)
C7_KeywordsOnlyInOperatorPosition ==
    Alive =>
      /\ ReadEval(Programs.if_true).res = Ok(NumberInt(1))
      /\ \A k \in 0..6 :
            LET l == EnvLookup(frames, GlobalEnv, k)
            IN InterpEval(objects, frames, overflow_checks, Obj(k)).res =
                  IF l.found THEN Ok(l.val) ELSE ErrAt("UnboundVariable", k)
      /\ LET l == EnvLookup(frames, GlobalEnv, KwIf)
         IN ReadEval(Programs.add_if).res =
               IF ~l.found THEN ErrAt("UnboundVariable", KwIf)
               ELSE IF l.val.tag = "Int" /\ InRange(l.val.v + 1)
                    THEN Ok(NumberInt(l.val.v + 1))
               ELSE IF l.val.tag = "Int" /\ ~overflow_checks
                    THEN Ok(NumberInt(Wrap(l.val.v + 1)))
               ELSE IF l.val.tag = "Int" THEN Err("Panic")
               ELSE Err("TypeError")
      /\ Evaluated("define_if") =>
            /\ result = Ok(NumberInt(5))
            /\ EnvLookup(frames, GlobalEnv, KwIf) = [found |-> TRUE, val |-> NumberInt(5)]

(* `if` evaluated as a variable after (define if 5) *)
C7_Witness ==
    /\ Evaluated("if")
    /\ result = Ok(NumberInt(5))

(* the frames from env up to the root, nearest first *)
RECURSIVE Chain(_, _)
Chain(frs, env) ==
    IF env = 0 THEN <<>> ELSE <<env>> \o Chain(frs, frs[env].parent)

(* the positions of Chain(frs, env) whose frame binds key *)
Binders(frs, env, key) ==
    {i \in 1..Len(Chain(frs, env)) : key \in DOMAIN frs[Chain(frs, env)[i]].bindings}

(* the nearest frame of the chain that binds key *)
Nearest(frs, env, key) ==
    Chain(frs, env)[CHOOSE i \in Binders(frs, env, key) :
                       \A j \in Binders(frs, env, key) : i <= j]

(* frame f differs between before and after at most in its binding of key,*)
(* every other frame is the same                                           *)
OnlyBindingChanged(before, after, f, key) ==
    /\ Len(after) = Len(before)
    /\ \A g \in 1..Len(before) : g # f => after[g] = before[g]
    /\ after[f].parent = before[f].parent
    /\ DOMAIN after[f].bindings = DOMAIN before[f].bindings \cup {key}
    /\ \A k \in DOMAIN before[f].bindings \ {key} :
          after[f].bindings[k] = before[f].bindings[k]

(* C8: (define x v) evaluated in frame f binds x to v in f, overwriting an *)
(* earlier binding of x in f, and changes no other binding and no other    *)
(* frame; at top level x then evaluates to v.                              *)
C8_DefineIsLocal ==
    /\ \A k \in 1..Len(trace) :
          trace[k].op = "define" =>
             LET ev == trace[k]
             IN /\ ev.res = Ok(ev.val)
                /\ OnlyBindingChanged(ev.before, ev.after, ev.env, ev.key)
                /\ ev.after[ev.env].bindings[ev.key] = ev.val
                /\ EnvLookup(ev.after, ev.env, ev.key) = [found |-> TRUE, val |-> ev.val]
    /\ (last.op = "eval" /\ IsForm(KwDefine) /\ result.ok /\ IsSymbol(objects, ExprArgs[1])) =>
          InterpEval(objects, frames, overflow_checks, ExprArgs[1]).res = result

(* a define in a closure body that overwrites the parameter's binding *)
C8_Witness ==
    /\ Evaluated("redefine_param")
    /\ result = Ok(NumberInt(5))
    /\ \E k \in 1..Len(trace) :
          /\ trace[k].op = "define"
          /\ trace[k].env # GlobalEnv
          /\ trace[k].key \in DOMAIN trace[k].before[trace[k].env].bindings
          /\ trace[k].before[trace[k].env].bindings[trace[k].key] = NumberInt(3)
          /\ trace[k].after[trace[k].env].bindings[trace[k].key] = NumberInt(5)

(* C9: set! on a symbol that some frame of the chain binds writes the      *)
(* nearest such frame and nothing else, creates no binding, and the new    *)
(* value is what every frame whose nearest binding is that frame looks up. *)
C9_SetBangUpdatesNearest ==
    \A k \in 1..Len(trace) :
       (trace[k].op = "set!" /\ Binders(trace[k].before, trace[k].env, trace[k].key) # {}) =>
          LET ev == trace[k]
              f == Nearest(ev.before, ev.env, ev.key)
          IN /\ ev.res = Ok(ev.val)
             /\ DOMAIN ev.after[f].bindings = DOMAIN ev.before[f].bindings
             /\ OnlyBindingChanged(ev.before, ev.after, f, ev.key)
             /\ ev.after[f].bindings[ev.key] = ev.val
             /\ \A g \in 1..Len(ev.before) :
                   (/\ Binders(ev.before, g, ev.key) # {}
                    /\ Nearest(ev.before, g, ev.key) = f) =>
                      EnvLookup(ev.after, g, ev.key) = [found |-> TRUE, val |-> ev.val]

(* a set! in a closure body on a symbol bound only in the global frame *)
C9_Witness ==
    /\ Evaluated("set_outer")
    /\ result = Ok(NumberInt(9))
    /\ \E k \in 1..Len(trace) :
          /\ trace[k].op = "set!"
          /\ trace[k].env # GlobalEnv
          /\ Binders(trace[k].before, trace[k].env, trace[k].key) # {}
          /\ Nearest(trace[k].before, trace[k].env, trace[k].key) = GlobalEnv
          /\ frames[GlobalEnv].bindings[trace[k].key] = NumberInt(9)

(* C10: set! on a symbol no frame of the chain binds returns               *)
(* UnboundVariable and leaves every frame as it was.                       *)
C10_SetBangUnbound ==
    /\ [](\A k \in 1..Len(trace) :
            (trace[k].op = "set!" /\ Binders(trace[k].before, trace[k].env, trace[k].key) = {}) =>
               /\ trace[k].res = ErrAt("UnboundVariable", trace[k].key)
               /\ trace[k].after = trace[k].before)
    /\ [][(/\ EvalStep
           /\ IsForm(KwSetBang)
           /\ Len(ExprArgs) = 2
           /\ IsSymbol(objects, ExprArgs[1])
           /\ ~IsObj(ExprArgs[2])
           /\ ~EnvLookup(frames, GlobalEnv, ExprArgs[1].v).found) =>
           /\ result' = ErrAt("UnboundVariable", ExprArgs[1].v)
           /\ frames' = frames]_vars

(* a set! in a closure body on a symbol that neither frame binds *)
C10_Witness ==
    /\ Evaluated("set_outer")
    /\ ~result.ok /\ result.err = "UnboundVariable"
    /\ \E k \in 1..Len(trace) :
          /\ trace[k].op = "set!"
          /\ trace[k].env # GlobalEnv
          /\ Len(Chain(trace[k].before, trace[k].env)) = 2
          /\ Binders(trace[k].before, trace[k].env, trace[k].key) = {}

(* the events of the trace that record the body forms run in frame e *)
BodyEvents(e) == SelectSeq(trace, LAMBDA ev : ev.op = "body" /\ ev.env = e)

(* the events of the trace that record the return of the application that *)
(* created frame e                                                         *)
ReturnEvents(e) == SelectSeq(trace, LAMBDA ev : ev.op = "return" /\ ev.env = e)

(* C11: applying a closure to as many arguments as it has parameters       *)
(* creates one new frame whose parent is the closure's captured frame and  *)
(* binds parameter i to argument i; the body forms are evaluated in order  *)
(* in that frame, each from the frames the previous one left; the value of *)
(* the last form is returned, and the first failing form ends the          *)
(* application with its error, no later form being evaluated.              *)
C11_ClosureApplication ==
    /\ \A k \in 1..Len(trace) :
          (/\ trace[k].op = "apply"
           /\ Len(Get(objects, trace[k].key).params) = Len(trace[k].val)
           /\ Len(Get(objects, trace[k].key).body) >= 1) =>
             LET ev == trace[k]
                 c == Get(objects, ev.key)
                 e == ev.env
                 B == BodyEvents(e)
                 Rt == ReturnEvents(e)
             IN /\ Len(ev.after) = Len(ev.before) + 1
                /\ e = Len(ev.after)
                /\ \A g \in 1..Len(ev.before) : ev.after[g] = ev.before[g]
                /\ ev.after[e].parent = c.env
                /\ DOMAIN ev.after[e].bindings = {c.params[i] : i \in 1..Len(c.params)}
                /\ \A i \in 1..Len(c.params) :
                      (\A j \in (i + 1)..Len(c.params) : c.params[j] # c.params[i]) =>
                         ev.after[e].bindings[c.params[i]] = ev.val[i]
                /\ Len(B) \in 1..Len(c.body)
                /\ B[1].before = ev.after
                /\ \A j \in 1..Len(B) : B[j].key = j /\ B[j].val = c.body[j]
                /\ \A j \in 1..(Len(B) - 1) :
                      B[j].res.ok /\ B[j + 1].before = B[j].after
                /\ Len(B) < Len(c.body) => ~B[Len(B)].res.ok
                /\ Len(Rt) = 1
                /\ Rt[1].res = B[Len(B)].res
                /\ Rt[1].after = B[Len(B)].after
    /\ Evaluated("sub_two") => result = Ok(NumberInt(2))
    /\ Evaluated("local_define") => result = Ok(NumberInt(10))
    /\ Evaluated("body_fails") => ~result.ok /\ result.err = "UnboundVariable"

(* the second of three body forms failed after the first one had set the   *)
(* global x to the argument 9                                              *)
C11_Witness ==
    /\ Evaluated("body_fails")
    /\ ~result.ok /\ result.err = "UnboundVariable"
    /\ \E k \in 1..Len(trace) :
          /\ trace[k].op = "apply"
          /\ Len(Get(objects, trace[k].key).body) = 3
          /\ Len(BodyEvents(trace[k].env)) = 2
          /\ BodyEvents(trace[k].env)[1].res = Ok(NumberInt(9))
    /\ \E x \in DOMAIN frames[GlobalEnv].bindings :
          /\ Get(objects, x) = Symbol("x")
          /\ frames[GlobalEnv].bindings[x] = NumberInt(9)

(* C12: applying a closure to a number of arguments different from its     *)
(* parameter count returns an error: no frame is created, no binding is    *)
(* made and no body form is evaluated.                                     *)
C12_ArityMismatch ==
    /\ [](\A k \in 1..Len(trace) :
            (/\ trace[k].op = "apply"
             /\ Len(Get(objects, trace[k].key).params) # Len(trace[k].val)) =>
               /\ ~trace[k].res.ok /\ ~Aborted(trace[k].res)
               /\ trace[k].after = trace[k].before
               /\ trace[k].env = 0
               /\ k < Len(trace) => trace[k + 1].op \notin {"body", "define", "set!"})
    /\ [][(EvalStep /\ last.prog \in {"too_many", "too_few"}) =>
           /\ ~result'.ok /\ ~Aborted(result')
           /\ frames' = frames
           /\ \A k \in 1..Len(trace') : trace'[k].op \notin {"body", "set!"}]_vars

(* a one-parameter closure whose body sets the global x, applied to two    *)
(* arguments while x is bound                                              *)
C12_Witness ==
    /\ Evaluated("too_many")
    /\ result = Err("EvalError")
    /\ \E k \in 1..Len(trace) :
          /\ trace[k].op = "apply"
          /\ Len(trace[k].val) = 2
          /\ Len(Get(objects, trace[k].key).params) = 1
    /\ \E x \in DOMAIN frames[GlobalEnv].bindings :
          /\ Get(objects, x) = Symbol("x")
          /\ frames[GlobalEnv].bindings[x] = NumberInt(1)

(* C13: a lambda expression without a body form is an error, so every      *)
(* Closure of the heap has at least one body form and ((lambda (x)) 1)     *)
(* does not return a value.                                                *)
C13_LambdaNeedsBody ==
    /\ \A id \in 0..(Len(objects) - 1) :
          Get(objects, id).type = "Closure" => Len(Get(objects, id).body) >= 1
    /\ Evaluated("apply_no_body") => ~result.ok

(* v is Nil or a chain of Pairs that ends in Nil and whose cars are Symbols *)
RECURSIVE IsSymbolList(_, _)
IsSymbolList(objs, v) ==
    \/ v = Nil
    \/ /\ IsPair(objs, v)
       /\ IsSymbol(objs, Get(objs, v.v).car)
       /\ IsSymbolList(objs, Get(objs, v.v).cdr)

(* C14: a lambda expression whose parameter specification is not a list of *)
(* Symbols evaluates to an error and allocates nothing.                    *)
C14_LambdaParamsMustBeSymbols ==
    [][(/\ EvalStep
        /\ IsForm(KwLambda)
        /\ Len(ExprArgs) >= 1
        /\ ~IsSymbolList(objects, ExprArgs[1])) =>
        /\ ~result'.ok
        /\ objects' = objects]_vars

(* C15: (define x v) and (set! x v) whose x is not a Symbol evaluate to an *)
(* error and leave every frame as it was.                                  *)
C15_DefineSetBangNeedSymbol ==
    [][(/\ EvalStep
        /\ IsForm(KwDefine) \/ IsForm(KwSetBang)
        /\ Len(ExprArgs) = 2
        /\ ~IsSymbol(objects, ExprArgs[1])) =>
        /\ ~result'.ok
        /\ frames' = frames]_vars

(* the evaluation state the next Interp::eval starts from *)
EvalState == [objects |-> objects, frames |-> frames, trace |-> <<>>,
              oc |-> overflow_checks]

(* C16: car and cdr decompose every Pair of the heap: car of the Pair      *)
(* (a . b) is a and cdr is b, so (car '(1 2)) is 1 and                     *)
(* (car (cdr '(1 2))) is 2; car of the non-Pair 5 is a TypeError.          *)
C16_CarCdrDecomposePairs ==
    /\ \A id \in 0..(Len(objects) - 1) :
          Get(objects, id).type = "Pair" =>
             /\ primitive_list_car(EvalState, <<Obj(id)>>) = Ok(Get(objects, id).car)
             /\ primitive_list_cdr(EvalState, <<Obj(id)>>, FALSE).res =
                   Ok(Get(objects, id).cdr)
    /\ Evaluated("car_quoted") => result = Ok(NumberInt(1))
    /\ Evaluated("cadr_quoted") => result = Ok(NumberInt(2))
    /\ Evaluated("car_num") => result = Err("TypeError")

(* the symbol that is the operator of the combination expr names the      *)
(* primitive fn in the global frame                                        *)
OperatorIs(name, fn) ==
    /\ IsPair(objects, expr)
    /\ IsSymbol(objects, Get(objects, expr.v).car)
    /\ Get(objects, Get(objects, expr.v).car.v).name = name
    /\ LET l == EnvLookup(frames, GlobalEnv, Get(objects, expr.v).car.v)
       IN l.found /\ IsObj(l.val) /\ Get(objects, l.val.v) = Primitive(fn)

(* the value a chain of Pairs ends in *)
RECURSIVE Terminator(_, _)
Terminator(objs, v) ==
    IF IsPair(objs, v) THEN Terminator(objs, Get(objs, v.v).cdr) ELSE v

(* C17: (list a1 ... an) of self-evaluating arguments returns a proper     *)
(* list (a chain of Pairs ending in Nil) whose elements are a1 ... an in   *)
(* order; (list) returns Nil.                                              *)
C17_ListBuildsAllArgs ==
    [][(/\ EvalStep
        /\ OperatorIs("list", "primitive_list")
        /\ \A i \in 1..Len(ExprArgs) : ~IsObj(ExprArgs[i])) =>
        /\ result'.ok
        /\ Terminator(objects', result'.val) = Nil
        /\ FoldList(objects', result'.val) = ExprArgs
        /\ Len(ExprArgs) = 0 => result'.val = Nil]_vars

(* the strings the printer rules prescribe for val, one per write: a Pair  *)
(* chain is "(", its elements separated by " ", then ")" after a Nil       *)
(* terminator and " . ", the terminator and ")" after any other            *)
RECURSIVE ExpectedWrites(_, _)
RECURSIVE ExpectedTail(_, _)
ExpectedWrites(objs, val) ==
    IF IsPair(objs, val)
    THEN <<"(">> \o ExpectedWrites(objs, Get(objs, val.v).car)
                 \o ExpectedTail(objs, Get(objs, val.v).cdr)
    ELSE IF IsSymbol(objs, val) THEN <<Get(objs, val.v).name>>
    ELSE <<ValueText(val)>>

ExpectedTail(objs, p) ==
    IF IsPair(objs, p)
    THEN <<" ">> \o ExpectedWrites(objs, Get(objs, p.v).car)
                 \o ExpectedTail(objs, Get(objs, p.v).cdr)
    ELSE IF p = Nil THEN <<")">>
    ELSE <<" . ">> \o ExpectedWrites(objs, p) \o <<")">>

(* C18: printing a chain of Pairs terminates: what display has written is  *)
(* always a prefix of the printed form of the value, the terminator of an  *)
(* improper chain being written once after " . " and followed by ")", and  *)
(* display is done exactly when the whole form is written.                 *)
C18_PrintingTerminates ==
    printer.status # "idle" =>
       LET exp == ExpectedWrites(objects, printer.val)
       IN /\ Len(printer.out) <= Len(exp)
          /\ SubSeq(exp, 1, Len(printer.out)) = printer.out
          /\ (printer.status = "done") <=> (printer.out = exp)

(* C19: reading the canonical printed form of an integer, a boolean, (),   *)
(* a symbol, a string or a proper list of these and printing the value     *)
(* read gives the same text.                                               *)
C19_ReadPrintRoundTrip ==
    (printer.status = "done" /\ printer.src \in {Join(t) : t \in CanonicalTexts}) =>
       Join(printer.out) = printer.src

UnterminatedStrings == {<<"\"", "a", "b">>, <<"\"", "a", "\\">>}
UnterminatedLists ==
    {<<"(", "1", " ", "2">>, <<"(">>, <<"(", "a", " ", "(", "b", ")">>}
InvalidNumbers == {<<"1", "e">>, <<"1", ".", "5", "e", "+">>, <<"9", "9", "9">>}
InvalidHashes == {<<"#", "z">>, <<"#">>, <<"#", "b", "2">>, <<"#", "\\", "a", "b">>}
StrayParens == {<<")">>, <<" ", ")">>}

----------------------------------------------------------------------------
(* the datum a Value denotes: the inverse of reading it *)
RECURSIVE DatumOf(_, _)
RECURSIVE DatumItems(_, _)
DatumOf(objs, val) ==
    CASE val.tag = "Int" -> DInt(val.v)
      [] val.tag = "Bool" -> DBool(val = Bool(TRUE))
      [] val.tag = "Nil" -> DList(<<>>)
      [] val.tag = "Obj" ->
         LET obj == Get(objs, val.v)
         IN CASE obj.type = "Symbol" -> DSym(obj.name)
              [] obj.type = "String" -> DStr(obj.s)
              [] obj.type = "Pair" -> DList(DatumItems(objs, val))
              [] OTHER -> <<"object">>
      [] OTHER -> <<"other">>

DatumItems(objs, p) ==
    IF IsPair(objs, p)
    THEN <<DatumOf(objs, Get(objs, p.v).car)>> \o DatumItems(objs, Get(objs, p.v).cdr)
    ELSE <<>>

(* C21: the k-th read on a parser returns the k-th top-level expression of *)
(* its input, starting where the read before it stopped and stopping right *)
(* after the expression; every read after the last expression returns Nil  *)
(* at the end of the input.                                                *)
C21_SuccessiveReads ==
    \A i \in 1..Len(SequenceTexts) :
       LET t == SequenceTexts[i]
           k == parser.reads
       IN (parser.input = TextOf(t) /\ k > 0) =>
             IF k <= Len(t.parts)
             THEN /\ parser.res.ok
                  /\ DatumOf(objects, parser.res.val) = t.parts[k].datum
                  /\ parser.start = Len(PartsText(t, k - 1))
                  /\ parser.pos = Len(PartsText(t, k))
             ELSE /\ parser.res = Ok(Nil)
                  /\ parser.pos = Len(parser.input)

(* the fourth read of _a (b 1)\n"s" ; end has skipped the closing comment *)
(* and returned Nil, the three reads before it having returned a, (b 1)   *)
(* and "s"                                                                *)
C21_Witness ==
    /\ last.op = "parser_read"
    /\ parser.input = TextOf(SequenceTexts[2])
    /\ parser.reads = 4
    /\ parser.res = Ok(Nil)
    /\ parser.start < parser.pos
    /\ \E id \in 0..(Len(objects) - 1) : Get(objects, id) = String("s")

(* the number of arguments of the combination expr *)
ArgCount == Len(DatumItems(objects, Get(objects, expr.v).cdr))

WrongArity ==
    \/ IsForm(KwIf) /\ ArgCount # 3
    \/ IsForm(KwDefine) /\ ArgCount # 2
    \/ IsForm(KwSetBang) /\ ArgCount # 2
    \/ IsForm(KwQuote) /\ ArgCount # 1

(* C22: evaluating an if with other than 3 arguments, a define or a set!   *)
(* with other than 2, or a quote with other than 1 returns EvalError, and  *)
(* no argument is evaluated: no define, set!, lambda or application runs,  *)
(* and the frames and the heap are left as they were.                      *)
C22_SpecialFormArity ==
    [][(EvalStep /\ WrongArity) =>
          /\ result' = Err("EvalError")
          /\ trace' = <<>>
          /\ frames' = frames
          /\ objects' = objects]_vars

(* (set! x (define w 1) 3) was evaluated where x is 1: the result is       *)
(* EvalError, x is still 1 and w was not defined                           *)
C22_Witness ==
    /\ last.op = "eval"
    /\ last.prog = "f_set_three"
    /\ result = Err("EvalError")
    /\ "x" \in DOMAIN symbols
    /\ symbols["x"] \in DOMAIN frames[GlobalEnv].bindings
    /\ frames[GlobalEnv].bindings[symbols["x"]] = NumberInt(1)
    /\ symbols["w"] \notin DOMAIN frames[GlobalEnv].bindings

(* the process has ended with an exit status *)
Terminated == ~result.ok /\ result.err = "Exit"

(* the Integer that is the only argument of the combination expr *)
OnlyArgIsInt == Len(ExprArgs) = 1 /\ ExprArgs[1].tag = "Int"

(* C23: (exit n) and (quit n) with an Integer n inside the i32 range end   *)
(* the process with status n; with n outside the range they return         *)
(* OverflowError, and the process goes on.                                 *)
C23_ExitStatusRange ==
    [][(/\ EvalStep
        /\ OperatorIs("exit", "primitive_quit") \/ OperatorIs("quit", "primitive_quit")
        /\ OnlyArgIsInt) =>
          LET n == ExprArgs[1].v
          IN IF n >= -(2 ^ (I32Bits - 1)) /\ n <= 2 ^ (I32Bits - 1) - 1
             THEN /\ Terminated'
                  /\ result'.val = NumberInt(n)
                  /\ ~Alive'
             ELSE /\ result' = Err("OverflowError")
                  /\ Alive']_vars

(* (exit 2147483648) has returned OverflowError and the interpreter has    *)
(* read the next expression                                                *)
C23_Witness ==
    /\ last.op = "read"
    /\ nreads = 2
    /\ result = Err("OverflowError")
    /\ trace = <<>>

(* (quit i32::MIN) has ended the process with that status *)
C23_WitnessExit ==
    /\ Terminated
    /\ last.prog = "e_quit_min"
    /\ result.val = NumberInt(I32Min)

(* the exact sum and product of a sequence of Integers *)
RECURSIVE SumOf(_)
SumOf(nums) == IF Len(nums) = 0 THEN 0 ELSE Head(nums).v + SumOf(Tail(nums))

RECURSIVE ProductOf(_)
ProductOf(nums) == IF Len(nums) = 0 THEN 1 ELSE Head(nums).v * ProductOf(Tail(nums))

(* the arguments of the combination expr are literals, which evaluate to   *)
(* themselves                                                              *)
LiteralArgs ==
    \A i \in 1..Len(ExprArgs) :
       ~IsObj(ExprArgs[i]) \/ Get(objects, ExprArgs[i].v).type = "String"

AllIntegers(args) == \A i \in 1..Len(args) : args[i].tag = "Int"

FitsInteger(n) == n >= -(2 ^ (IntBits - 1)) /\ n <= 2 ^ (IntBits - 1) - 1

(* what the claim prescribes for + , * and - on the arguments args *)
FoldValue(name, args) ==
    CASE name = "+" -> SumOf(args)
      [] name = "*" -> ProductOf(args)
      [] name = "-" -> IF Len(args) = 1 THEN 0 - args[1].v
                       ELSE args[1].v - SumOf(Tail(args))

(* C24: on Integer arguments + and * are the sum and the product, 0 and 1 *)
(* when there is no argument; - negates one argument and subtracts the    *)
(* others from the first; this whenever that Integer exists.  - without   *)
(* argument is ArgCountError; a non-number argument gives TypeError.      *)
C24_ArithmeticFolds ==
    [][\A name \in {"+", "-", "*"} :
        (/\ EvalStep
         /\ LiteralArgs
         /\ \/ name = "+" /\ OperatorIs("+", "primitive_add")
            \/ name = "-" /\ OperatorIs("-", "primitive_sub")
            \/ name = "*" /\ OperatorIs("*", "primitive_mul")) =>
           IF ~AllIntegers(ExprArgs) THEN result' = Err("TypeError")
           ELSE IF name = "-" /\ Len(ExprArgs) = 0 THEN result' = Err("ArgCountError")
           ELSE FitsInteger(FoldValue(name, ExprArgs)) =>
                   result' = Ok(NumberInt(FoldValue(name, ExprArgs)))]_vars

(* the kinds of SchemeError *)
SchemeErrors ==
    {"EvalError", "TypeError", "UnboundVariable", "SyntaxError",
     "ImplementationError", "ArgCountError", "OverflowError"}

(* res is a Value or a SchemeError *)
Completes(res) == res.ok \/ res.err \in SchemeErrors

(* expr is an application, one of whose arguments is a combination *)
CombinationArg ==
    /\ IsPair(objects, expr)
    /\ ~(IsObj(Get(objects, expr.v).car) /\ IsKeyword(Get(objects, expr.v).car.v))
    /\ \E i \in 1..Len(ExprArgs) : IsPair(objects, ExprArgs[i])

(* C25: the evaluation of an application one of whose arguments is a       *)
(* combination (a lambda expression, a call of a closure created in place, *)
(* a call of list or cdr) returns a Value or a SchemeError: it does not    *)
(* abort on a borrow of the heap.                                          *)
C25_NoBorrowAcrossAllocation ==
    [][(EvalStep /\ CombinationArg) => Completes(result')]_vars

(* expr is an application: a combination whose operator is no keyword *)
IsApplication ==
    /\ IsPair(objects, expr)
    /\ ~(IsObj(Get(objects, expr.v).car) /\ IsKeyword(Get(objects, expr.v).car.v))

(* argument i of expr is (define s v) with v a literal *)
IsDefineArg(i) ==
    /\ IsPair(objects, ExprArgs[i])
    /\ Get(objects, ExprArgs[i].v).car = Obj(KwDefine)
    /\ LET d == DatumItems(objects, Get(objects, ExprArgs[i].v).cdr)
       IN Len(d) = 2 /\ d[1][1] = "sym" /\ d[2][1] = "int"

(* the symbol argument i of expr defines *)
DefinedBy(i) == Get(objects, Get(objects, ExprArgs[i].v).cdr.v).car.v

(* the evaluation of argument i of expr succeeds: a literal or a define *)
ArgSucceeds(i) == ~IsObj(ExprArgs[i]) \/ IsDefineArg(i)

(* the evaluation of argument i of expr fails: a symbol no frame binds *)
ArgFails(i) ==
    /\ IsSymbol(objects, ExprArgs[i])
    /\ ~EnvLookup(frames, GlobalEnv, ExprArgs[i].v).found

(* C26: when argument k of an application is the first whose evaluation    *)
(* fails, its error is the result of the combination, the defines among    *)
(* the arguments before it have run, those among the arguments after it    *)
(* have not, and no closure is applied.                                    *)
C26_FirstFailingArgument ==
    [][(EvalStep /\ IsApplication) =>
          \A k \in 1..Len(ExprArgs) :
             (ArgFails(k) /\ \A j \in 1..(k - 1) : ArgSucceeds(j)) =>
                /\ result' = ErrAt("UnboundVariable", ExprArgs[k].v)
                /\ \A j \in 1..(k - 1) :
                      IsDefineArg(j) =>
                         \E e \in 1..Len(trace') :
                            trace'[e].op = "define" /\ trace'[e].key = DefinedBy(j)
                /\ \A j \in (k + 1)..Len(ExprArgs) :
                      IsDefineArg(j) =>
                         \A e \in 1..Len(trace') :
                            ~(trace'[e].op = "define" /\ trace'[e].key = DefinedBy(j))
                /\ \A e \in 1..Len(trace') : trace'[e].op # "apply"]_vars

(* the ids of the Pairs of the chain that starts at v, in order *)
RECURSIVE ChainCells(_, _)
ChainCells(objs, v) ==
    IF IsObj(v) /\ objs[v.v + 1].type = "Pair"
    THEN <<v.v>> \o ChainCells(objs, objs[v.v + 1].cdr)
    ELSE <<>>

(* C27: alloc_list of no item returns Nil and allocates nothing; of n      *)
(* items it returns a reference to a chain of exactly n Pairs, all new and *)
(* distinct, whose cars are the items in order and whose last cdr is Nil;  *)
(* fold_list over the result visits the items in that order.               *)
C27_AllocListFoldList ==
    [][\A items \in ListArgs :
          ApiAllocList(items) =>
             LET n == Len(items)
                 cells == ChainCells(objects', expr')
             IN /\ (n = 0) <=> (expr' = Nil)
                /\ n > 0 => IsObj(expr')
                /\ Len(objects') = Len(objects) + n
                /\ Len(cells) = n
                /\ \A i \in 1..n :
                      /\ cells[i] >= Len(objects)
                      /\ objects'[cells[i] + 1].car = items[i]
                      /\ \A j \in 1..n : cells[i] = cells[j] => i = j
                /\ n > 0 => objects'[cells[n] + 1].cdr = Nil
                /\ FoldList(objects', expr') = items]_vars

(* a list of three items was built whose first item is a list built before *)
C27_Witness ==
    /\ last.op = "alloc_list"
    /\ napi = 2
    /\ Len(ChainCells(objects, expr)) = 3
    /\ IsPair(objects, Get(objects, expr.v).car)
    /\ FoldList(objects, expr)[3] = NumberInt(3)

(* C28: a call of a primitive other than exit and quit, on any arguments,  *)
(* returns a Value or a SchemeError and leaves the interpreter alive; so   *)
(* do (% a 0) and (% m -1) with m the smallest Integer.                    *)
C28_PrimitivesNeverAbort ==
    [][\A i \in 1..Len(PrimTable) :
          (/\ EvalStep
           /\ LiteralArgs
           /\ PrimTable[i][2] # "primitive_quit"
           /\ OperatorIs(PrimTable[i][1], PrimTable[i][2])) =>
             Completes(result') /\ Alive']_vars

(* C29: one Integer +, -, * or negation returns the exact Integer when it  *)
(* fits; when it does not fit, evaluation does not abort and does not      *)
(* return an Integer.                                                      *)
C29_IntegerOverflow ==
    [][\A name \in {"+", "-", "*"} :
        (/\ EvalStep
         /\ LiteralArgs
         /\ Len(ExprArgs) \in 1..2
         /\ AllIntegers(ExprArgs)
         /\ \/ name = "+" /\ OperatorIs("+", "primitive_add")
            \/ name = "-" /\ OperatorIs("-", "primitive_sub")
            \/ name = "*" /\ OperatorIs("*", "primitive_mul")) =>
           IF FitsInteger(FoldValue(name, ExprArgs))
           THEN result' = Ok(NumberInt(FoldValue(name, ExprArgs)))
           ELSE /\ Completes(result')
                /\ result'.ok => result'.val.tag # "Int"]_vars

(* C30: a read called before the end of the input consumes at least one   *)
(* byte, whether it returns a Value or a SyntaxError; so k reads have     *)
(* consumed k bytes or the whole input, and a loop of reads is at the end *)
(* of an input of n bytes after n reads at most, one more returning Nil.  *)
C30_ReadConsumes ==
    /\ [][(/\ last'.op = "parser_read"
           /\ parser'.reads = parser.reads + 1
           /\ parser.pos < Len(parser.input)) =>
             /\ parser'.pos > parser.pos
             /\ parser'.pos <= Len(parser.input)
             /\ parser'.res.ok \/ parser'.res = Err("SyntaxError")]_vars
    /\ [](\/ parser.pos >= parser.reads
          \/ parser.pos = Len(parser.input) /\ parser.reads = parser.pos + 1)

(* the fourth read of the list with a comma: after a SyntaxError for the  *)
(* comma and the Values 2 and 3, a SyntaxError for the parenthesis, which *)
(* it consumed                                                            *)
C30_Witness ==
    /\ last.op = "parser_read"
    /\ parser.input = <<"(", "*", ",", " ", "2", " ", "3", ")">>
    /\ parser.reads = 4
    /\ parser.start = 7
    /\ parser.pos = 8
    /\ parser.res = Err("SyntaxError")

====
